---- MODULE Spec2Model ----
(***************************************************************************)
(* nix-remote-build-controller: the worker reconciler (pkg/controller) and *)
(* the SSH ingress proxy (pkg/proxy), both talking to the cluster store.   *)
(*                                                                         *)
(* Strings that the code inspects character by character (session ids,    *)
(* object names built with fmt.Sprintf) are sequences of one-character     *)
(* strings.  Timestamps are minutes on the model clock; NilTime is a nil   *)
(* *metav1.Time.                                                           *)
(***************************************************************************)
EXTENDS Integers, Sequences, FiniteSets, TLC

VARIABLES
    store,      \* NixBuildRequest objects in the cluster store, by name
    pods,       \* the Pod objects in the namespace (a set of records)
    clock,      \* time.Now(), minutes
    nextUID,    \* next metadata.uid the store hands out
    wk,         \* per reconcile worker: position inside Reconcile + locals
    ctxDone,    \* the controller's root context has been cancelled
    sd,         \* position of rootCmd.Run / GracefulShutdown after cancel
    reconciled, \* uids for which some Reconcile has returned a nil error
    ch,         \* per client channel: position inside handleChannel + locals
    pctxDone,   \* the proxy's ambient context has been cancelled
    srv,        \* SSHProxy.Start: its loop, its accept goroutine, connections
    fw          \* one forwardRequests goroutine: its src, its calls on dst

vars == <<store, pods, clock, nextUID, wk, ctxDone, sd, reconciled, ch, pctxDone, srv, fw>>

ctlVars == <<store, pods, clock, nextUID, wk, ctxDone, sd, reconciled>>
proxyVars == <<ch, pctxDone, srv, fw>>

-----------------------------------------------------------------------------
(* Strings                                                                 *)

Digits == {"0", "1", "2", "3", "4", "5", "6", "7", "8", "9"}
LowerLetters ==
    {"a", "b", "c", "d", "e", "f", "g", "h", "i", "j", "k", "l", "m",
     "n", "o", "p", "q", "r", "s", "t", "u", "v", "w", "x", "y", "z"}
AlNum == LowerLetters \cup Digits
LabelChar == AlNum \cup {"-"}

\* len(sessionID) > 240
MaxSessionIDLen == 240
\* the {0,61} of sessionIDRegex
LabelInnerMax == 61

\* sessionIDRegex.MatchString: ^[a-z0-9]([a-z0-9\-]{0,61}[a-z0-9])?$
sessionIDRegexMatch(s) ==
    /\ Len(s) >= 1
    /\ s[1] \in AlNum
    /\ \/ Len(s) = 1
       \/ /\ Len(s) - 2 <= LabelInnerMax
          /\ \A i \in 2..(Len(s) - 1) : s[i] \in LabelChar
          /\ s[Len(s)] \in AlNum

\* validateSessionID: the error it returns, "nil" for none
validateSessionID(s) ==
    IF s = <<>> THEN "sessionID cannot be empty"
    ELSE IF Len(s) > MaxSessionIDLen THEN "sessionID too long"
    ELSE IF ~sessionIDRegexMatch(s) THEN "sessionID is invalid"
    ELSE "nil"

\* fmt.Sprintf("nix-builder-%s", buildReq.Spec.SessionID)
PodNamePrefix == <<"n", "i", "x", "-", "b", "u", "i", "l", "d", "e", "r", "-">>
PodNameFor(sid) == PodNamePrefix \o sid

\* fmt.Sprintf("build-%s", session.ID)
BuildReqPrefix == <<"b", "u", "i", "l", "d", "-">>
BuildReqName(sid) == BuildReqPrefix \o sid

-----------------------------------------------------------------------------
(* Objects                                                                 *)

NilTime == -1
\* time.Minute*5 of handleCompletedBuild
GCAfterMinutes == 5
\* the instants (minutes) at which the model looks at the clock
Instants == {0, 5, 6}

\* how many NixBuildRequest objects are created in one behaviour
MaxUID == 2

\* the zero NixBuildRequestStatus
EmptyStatus ==
    [phase |-> "", podName |-> <<>>, podIP |-> "", startTime |-> NilTime,
     completionTime |-> NilTime, message |-> <<>>]

NoObj == [uid |-> 0]
NoPod == [name |-> <<>>]
NoKey == <<"-">>

\* a session id as the proxy generates it, and ids that fail validation
GoodID == <<"s", "1">>
UpperID == <<"B", "a", "d", "_", "I", "D">>
EmptyID == <<>>
InvalidIDs == {UpperID, EmptyID}

\* the strings given to validateSessionID: the empty one and, for each
\* length around the limits of the code, a string with a first character, a
\* last character and the same character in between
IDLengths == {1, 2, 3, 63, 64, 65, 240, 241}
IDChars == {"a", "7", "-", "B"}
SessionIDs ==
    {<<>>} \cup
    {[i \in 1..n |-> IF i = 1 THEN f ELSE IF i = n THEN l ELSE m] :
        <<f, m, l, n>> \in IDChars \X IDChars \X IDChars \X IDLengths}

\* the (name, spec.sessionId) pairs with which records are created: by the
\* proxy (build-<sessionId>), or directly in the store: a second record with
\* the same sessionId, and a record whose sessionId fails validation
GoodName == BuildReqName(GoodID)
DupName == <<"d", "u", "p">>
BadName == <<"b", "a", "d">>
GoodRequest == [name |-> GoodName, sid |-> GoodID]
DupRequest == [name |-> DupName, sid |-> GoodID]
BadRequests == {[name |-> BadName, sid |-> s] : s \in InvalidIDs}
RecNames == {GoodName, DupName, BadName}

Workers == {"w1", "w2"}
PodIPs == {"10.0.0.42"}

\* the channels the client of one connection may open, and their types
Channels == {"c1", "c2"}
Conns == {"k1", "k2", "k3"}

\* the out-of-band requests of a channel (ssh.Request), and how many the
\* originator sends
Requests ==
    {[type |-> "exec", payload |-> <<"nix-daemon">>, wantReply |-> TRUE],
     [type |-> "exec", payload |-> <<>>, wantReply |-> FALSE],
     [type |-> "env", payload |-> <<"k", "v">>, wantReply |-> FALSE],
     [type |-> "signal", payload |-> <<"TERM">>, wantReply |-> TRUE]}
MaxReqs == 3
ChannelTypes == {"session", "direct-tcpip"}
\* --remote-port
RemotePort == 22
\* the four tasks of routeToBuilder
SpliceTasks == {"req.c2b", "req.b2c", "copy.c2b", "copy.b2c"}
NoStatus == [phase |-> "none"]
NoAddr == <<>>

Exists(n) == store[n] # NoObj
LiveIn(st) == {st[n].uid : n \in RecNames} \ {0}
LiveUIDs == LiveIn(store)

PodsNamed(nm) == {p \in pods : p.name = nm}
PodExists(nm) == PodsNamed(nm) # {}
ThePod(nm) == CHOOSE p \in pods : p.name = nm

\* a pod named after its record instead of after the sessionId
createBuilderPodByRecord(b) ==
    [name |-> PodNamePrefix \o b.name, session |-> b.sid, request |-> b.name,
     owner |-> b.uid, phase |-> "Pending", ip |-> ""]

\* createBuilderPod: the object handed to Create (status is the store's)
createBuilderPod(b) ==
    [name |-> PodNameFor(b.sid), session |-> b.sid, request |-> b.name,
     owner |-> b.uid, phase |-> "Pending", ip |-> ""]

-----------------------------------------------------------------------------
(* The status each branch of the reconciler writes                         *)

\* a validation failure that stamps completionTime on every run
InvalidStatusRestamped(st, err, now) ==
    [st EXCEPT !.phase = "Failed",
               !.message = <<"Invalid sessionID: ", err>>,
               !.completionTime = now]

\* Reconcile, sessionID validation failure
InvalidStatus(st, err, now) ==
    [st EXCEPT !.phase = "Failed",
               !.message = <<"Invalid sessionID: ", err>>,
               !.completionTime = IF @ = NilTime THEN now ELSE @]

\* an adoption that does not record which pod it took
AdoptedStatusUnnamed(st, podName, now) ==
    [st EXCEPT !.phase = "Creating",
               !.startTime = IF @ = NilTime THEN now ELSE @,
               !.message = <<"Builder pod exists">>]

\* handlePendingBuild, pod already exists
AdoptedStatus(st, podName, now) ==
    [st EXCEPT !.phase = "Creating",
               !.podName = podName,
               !.startTime = IF @ = NilTime THEN now ELSE @,
               !.message = <<"Builder pod exists">>]

\* a Creating status that does not record which pod was created
CreatedStatusUnnamed(st, podName, now) ==
    [st EXCEPT !.phase = "Creating",
               !.startTime = IF @ = NilTime THEN now ELSE @,
               !.message = <<"Builder pod created">>]

\* handlePendingBuild, pod created
CreatedStatus(st, podName, now) ==
    [st EXCEPT !.phase = "Creating",
               !.podName = podName,
               !.startTime = IF @ = NilTime THEN now ELSE @,
               !.message = <<"Builder pod created">>]

\* a rollback that forgets when the build started
RolledBackStatusRestarted(st) ==
    [st EXCEPT !.phase = "Pending",
               !.podName = <<>>,
               !.podIP = "",
               !.startTime = NilTime,
               !.message = <<"Builder pod was deleted, recreating">>]

\* handleCreatingBuild, pod not found
RolledBackStatus(st) ==
    [st EXCEPT !.phase = "Pending",
               !.podName = <<>>,
               !.podIP = "",
               !.message = <<"Builder pod was deleted, recreating">>]

\* a pod that counts as ready as soon as it runs
PodReadyWithoutIP(pod) == pod.phase = "Running"

\* handleCreatingBuild: pod.Status.Phase == PodRunning && pod.Status.PodIP != ""
PodReady(pod) == pod.phase = "Running" /\ pod.ip # ""

\* handleCreatingBuild, pod ready
ReadyStatus(st, pod) ==
    [st EXCEPT !.phase = "Running",
               !.podIP = pod.ip,
               !.message = <<"Builder pod ready for connections">>]

\* a failure in Creating that sets no completionTime
CreatingFailedStatusUnstamped(st, now) ==
    [st EXCEPT !.phase = "Failed",
               !.message = <<"Builder pod failed: ">>]

\* handleCreatingBuild, pod failed
CreatingFailedStatus(st, now) ==
    [st EXCEPT !.phase = "Failed",
               !.completionTime = now,
               !.message = <<"Builder pod failed: ">>]

\* handleRunningBuild, pod not found
PodDeletedStatus(st, now) ==
    [st EXCEPT !.phase = "Failed",
               !.completionTime = now,
               !.message = <<"Build failed - pod was deleted">>]

\* handleRunningBuild, pod succeeded
SucceededStatus(st, now) ==
    [st EXCEPT !.phase = "Completed",
               !.completionTime = IF @ = NilTime THEN now ELSE @,
               !.message = <<"Build completed successfully">>]

\* handleRunningBuild, pod failed
RunningFailedStatus(st, now) ==
    [st EXCEPT !.phase = "Failed",
               !.completionTime = IF @ = NilTime THEN now ELSE @,
               !.message = <<"Build failed: ">>]

\* a shutdown that marks every listed record
ShutdownMarksAll(st) == TRUE

\* a shutdown that overlooks the records in Pending
ShutdownMarksCreatingOnly(st) == st.phase = "Creating"

\* GracefulShutdown: which listed records it marks
ShutdownMarks(st) == st.phase = "Pending" \/ st.phase = "Creating"

\* GracefulShutdown: the status it writes
ShutdownStatus(st, now) ==
    [st EXCEPT !.phase = "Failed",
               !.message = <<"Controller shutdown during processing">>,
               !.completionTime = now]

\* a collection that does not wait
GCDueAtOnce(st, now) == now - st.completionTime >= 0

\* handleCompletedBuild: time.Since(CompletionTime) > 5 minutes
GCDue(st, now) == now - st.completionTime > GCAfterMinutes

-----------------------------------------------------------------------------
(* Initial state                                                           *)

IdleWorker ==
    [pc |-> "idle", key |-> NoKey, snap |-> NoObj, fresh |-> FALSE,
     pod |-> NoPod, next |-> EmptyStatus,
     res |-> [key |-> NoKey, uid |-> 0, err |-> "nil", requeue |-> "none",
              path |-> "none"]]

\* a channel the client has not opened yet
NoChannel ==
    [pc |-> "none", type |-> "", created |-> FALSE, obs |-> NoStatus,
     dialed |-> NoAddr, tasks |-> {}, deleted |-> FALSE, exit |-> "",
     client |-> "open", builder |-> "none"]

\* rootCmd.Run before the signal: nothing listed; `listed` keeps what
\* GracefulShutdown's List returned and `clean` says that none of its
\* updates has failed
NoShutdown == [pc |-> "run", items |-> {}, listed |-> {}, clean |-> TRUE]

\* NewSSHProxy and the start of Start: the loop selects, the accept
\* goroutine is at the top of its loop, shutdownChan is open, no connection
NoServer ==
    [pc |-> "serve", shuttingDown |-> FALSE, closed |-> FALSE,
     acc |-> "top", held |-> "-", conn |-> [k \in Conns |-> "none"],
     waited |-> "", ret |-> ""]

\* forwardRequests when its goroutine starts: nothing on src, no call made
\* on dst; `sent` keeps the SendRequest calls with what they returned,
\* `replies` the Reply calls that answered, `asked` what the originator sent
NoForward ==
    [pc |-> "recv", src |-> <<>>, open |-> TRUE, cur |-> 0,
     asked |-> <<>>, sent |-> <<>>, replies |-> <<>>]

Init ==
    /\ store = [n \in RecNames |-> NoObj]
    /\ pods = {}
    /\ clock = 0
    /\ nextUID = 1
    /\ wk = [w \in Workers |-> IdleWorker]
    /\ ctxDone = FALSE
    /\ sd = NoShutdown
    /\ reconciled = {}
    /\ ch = [c \in Channels |-> NoChannel]
    /\ pctxDone = FALSE
    /\ srv = NoServer
    /\ fw = NoForward

-----------------------------------------------------------------------------
(* The store: optimistic concurrency.  An Update carries the               *)
(* resourceVersion its object was read with and is refused once the stored *)
(* object has changed since; `fresh` of a holder says that its copy still  *)
(* has the stored resourceVersion.                                         *)

\* every other holder of a copy of record n now has an old resourceVersion
WkAfterWrite(n, w, mine) ==
    [x \in Workers |->
        IF x = w THEN mine
        ELSE IF wk[x].key = n /\ wk[x].pc # "idle"
             THEN [wk[x] EXCEPT !.fresh = FALSE]
             ELSE wk[x]]

SdAfterWrite(n, done) ==
    [sd EXCEPT !.items =
        {IF i.name = n THEN [i EXCEPT !.fresh = FALSE] ELSE i
            : i \in sd.items \ done}]

\* a write of record n by somebody who is no reconcile worker
OthersAfterWrite(n) ==
    /\ wk' = WkAfterWrite(n, "nobody", IdleWorker)
    /\ sd' = SdAfterWrite(n, {})

\* the store purges a record: its uid is gone for good
Purged(n) == [store EXCEPT ![n] = NoObj]

-----------------------------------------------------------------------------
(* Clients of the store and the cluster around the reconciler              *)

\* k8sClient.Create of a NixBuildRequest (createBuildRequest, or by hand)
ClientCreate(r) ==
    /\ ~Exists(r.name)
    /\ nextUID <= MaxUID
    /\ store' = [store EXCEPT ![r.name] =
                    [uid |-> nextUID, name |-> r.name, sid |-> r.sid,
                     fin |-> FALSE, del |-> FALSE, st |-> EmptyStatus]]
    /\ nextUID' = nextUID + 1
    /\ UNCHANGED <<pods, clock, wk, ctxDone, sd, reconciled, ch, pctxDone, srv, fw>>

\* what a Delete of record n does to the store: with a finalizer the record
\* is only marked (deletionTimestamp), without one it is purged
StoreAfterDelete(n) ==
    IF ~Exists(n) THEN store
    ELSE IF store[n].fin THEN [store EXCEPT ![n].del = TRUE]
    ELSE Purged(n)

\* k8sClient.Delete of a NixBuildRequest
ClientDelete(n) ==
    /\ Exists(n)
    /\ ~store[n].del
    /\ store' = StoreAfterDelete(n)
    /\ OthersAfterWrite(n)
    /\ reconciled' = reconciled \cap LiveIn(StoreAfterDelete(n))
    /\ UNCHANGED <<pods, clock, nextUID, ctxDone, ch, pctxDone, srv, fw>>

\* the kubelet starts the pod's container
PodStart(p) ==
    /\ p \in pods /\ p.phase = "Pending"
    /\ pods' = (pods \ {p}) \cup {[p EXCEPT !.phase = "Running"]}
    /\ UNCHANGED <<store, clock, nextUID, wk, ctxDone, sd, reconciled, ch, pctxDone, srv, fw>>

\* the pod is given its address
PodAssignIP(p, ip) ==
    /\ p \in pods /\ p.phase \in {"Pending", "Running"} /\ p.ip = ""
    /\ pods' = (pods \ {p}) \cup {[p EXCEPT !.ip = ip]}
    /\ UNCHANGED <<store, clock, nextUID, wk, ctxDone, sd, reconciled, ch, pctxDone, srv, fw>>

\* the pod's container exits 0
PodSucceed(p) ==
    /\ p \in pods /\ p.phase = "Running"
    /\ pods' = (pods \ {p}) \cup {[p EXCEPT !.phase = "Succeeded"]}
    /\ UNCHANGED <<store, clock, nextUID, wk, ctxDone, sd, reconciled, ch, pctxDone, srv, fw>>

\* the pod fails (image pull, crash, activeDeadlineSeconds)
PodFail(p) ==
    /\ p \in pods /\ p.phase \in {"Pending", "Running"}
    /\ pods' = (pods \ {p}) \cup {[p EXCEPT !.phase = "Failed"]}
    /\ UNCHANGED <<store, clock, nextUID, wk, ctxDone, sd, reconciled, ch, pctxDone, srv, fw>>

\* the pod is deleted from outside (eviction, kubectl delete)
PodEvict(p) ==
    /\ p \in pods
    /\ p.owner \in LiveUIDs
    /\ pods' = pods \ {p}
    /\ UNCHANGED <<store, clock, nextUID, wk, ctxDone, sd, reconciled, ch, pctxDone, srv, fw>>

\* owner-reference garbage collection: the owner record is gone
PodGC(p) ==
    /\ p \in pods
    /\ p.owner \notin LiveUIDs
    /\ pods' = pods \ {p}
    /\ UNCHANGED <<store, clock, nextUID, wk, ctxDone, sd, reconciled, ch, pctxDone, srv, fw>>

\* time passes
Tick(t) ==
    /\ t \in Instants /\ t > clock
    /\ clock' = t
    /\ UNCHANGED <<store, pods, nextUID, wk, ctxDone, sd, reconciled, ch, pctxDone, srv, fw>>

-----------------------------------------------------------------------------
(* Reconcile, one action per call it makes on the store                    *)

\* the worker's locals once Reconcile has returned (ctrl.Result, error)
Returned(w, b, err, requeue, path) ==
    [IdleWorker EXCEPT !.res = [key |-> wk[w].key, uid |-> b.uid, err |-> err,
                                requeue |-> requeue, path |-> path]]

\* (kept for the records that are still in the store)
ReconciledAfter(b, err) ==
    IF err = "nil" /\ b.uid \in LiveUIDs THEN reconciled \cup {b.uid} ELSE reconciled

\* the step writes record n (or leaves the store as it is)
Written(n, w, mine, newStore) ==
    /\ store' = newStore
    /\ wk' = IF newStore = store THEN [wk EXCEPT ![w] = mine]
             ELSE WkAfterWrite(n, w, mine)
    /\ sd' = IF newStore = store THEN sd ELSE SdAfterWrite(n, {})

\* the step returns from Reconcile without touching the store
Leave(w, err, requeue, path) ==
    /\ wk' = [wk EXCEPT ![w] = Returned(w, wk[w].snap, err, requeue, path)]
    /\ reconciled' = ReconciledAfter(wk[w].snap, err)
    /\ UNCHANGED <<store, sd>>

\* the error of an Update of the worker's copy: refused on an old
\* resourceVersion, or failed for another reason (ok = FALSE)
WriteErr(w, ok) ==
    IF ~wk[w].fresh THEN "conflict" ELSE IF ~ok THEN "error" ELSE "nil"

\* the step moves on inside Reconcile
Goto(w, pc) == [wk[w] EXCEPT !.pc = pc]

\* a dispatch that never adds the finalizer
DispatchWithoutFinalizer(b, now) ==
    IF validateSessionID(b.sid) # "nil" THEN "invalid.write"
    ELSE IF b.del THEN
        (IF b.st.podName # <<>> THEN "cleanup.get" ELSE "finalizer.remove")
    ELSE IF b.st.phase \in {"", "Pending"} THEN "pending.get"
    ELSE IF b.st.phase = "Creating" THEN "creating.get"
    ELSE IF b.st.phase = "Running" THEN "running.get"
    ELSE IF b.st.completionTime = NilTime THEN "panic"
    ELSE IF GCDue(b.st, now) THEN "completed.get"
    ELSE "return"

\* a dispatch that provisions a new record first and adds the finalizer
\* once the record is Creating
DispatchFinalizerLate(b, now) ==
    IF validateSessionID(b.sid) # "nil" THEN "invalid.write"
    ELSE IF ~b.del /\ b.st.phase \in {"", "Pending"} THEN "pending.get"
    ELSE IF ~b.del /\ ~b.fin THEN "finalizer.add"
    ELSE IF b.del THEN
        (IF b.st.podName # <<>> THEN "cleanup.get" ELSE "finalizer.remove")
    ELSE IF b.st.phase = "Creating" THEN "creating.get"
    ELSE IF b.st.phase = "Running" THEN "running.get"
    ELSE IF b.st.completionTime = NilTime THEN "panic"
    ELSE IF GCDue(b.st, now) THEN "completed.get"
    ELSE "return"

\* Reconcile after the Get: the next call it is going to make, from the
\* validation, the finalizer test and the switch on status.phase
Dispatch(b, now) ==
    IF validateSessionID(b.sid) # "nil" THEN "invalid.write"
    ELSE IF ~b.del /\ ~b.fin THEN "finalizer.add"
    ELSE IF b.del THEN
        (IF b.st.podName # <<>> THEN "cleanup.get" ELSE "finalizer.remove")
    ELSE IF b.st.phase \in {"", "Pending"} THEN "pending.get"
    ELSE IF b.st.phase = "Creating" THEN "creating.get"
    ELSE IF b.st.phase = "Running" THEN "running.get"
    ELSE IF b.st.completionTime = NilTime THEN "panic"
    ELSE IF GCDue(b.st, now) THEN "completed.get"
    ELSE "return"

\* Reconcile: the shutdown check, Get of the record (a record that is not
\* found is no error), and the dispatch
ReconcileStart(w, n, ok) ==
    /\ wk[w].pc = "idle"
    /\ UNCHANGED <<store, pods, clock, nextUID, ctxDone, sd, ch, pctxDone, srv, fw>>
    /\ IF ctxDone \/ ~ok \/ ~Exists(n)
       THEN /\ wk' = [wk EXCEPT ![w] =
                        [IdleWorker EXCEPT !.res =
                            [key |-> n, uid |-> 0,
                             err |-> IF ctxDone THEN "cancelled"
                                     ELSE IF ~ok THEN "error" ELSE "nil",
                             requeue |-> "none",
                             path |-> IF ctxDone THEN "cancelled"
                                      ELSE IF ~ok THEN "get" ELSE "notfound"]]]
            /\ UNCHANGED reconciled
       ELSE LET b == store[n]
                pc == Dispatch(b, clock)
                me == [IdleWorker EXCEPT !.key = n, !.snap = b, !.fresh = TRUE]
            IN  IF pc \in {"return", "panic"}
                THEN /\ wk' = [wk EXCEPT ![w] =
                                [IdleWorker EXCEPT !.res =
                                    [key |-> n, uid |-> b.uid,
                                     err |-> IF pc = "panic" THEN "panic" ELSE "nil",
                                     requeue |-> "none", path |-> "completed"]]]
                     /\ reconciled' = ReconciledAfter(b, IF pc = "panic" THEN "panic" ELSE "nil")
                ELSE /\ wk' = [wk EXCEPT ![w] =
                                [me EXCEPT !.pc = pc,
                                           !.next = IF pc = "invalid.write"
                                                    THEN InvalidStatus(b.st, validateSessionID(b.sid), clock)
                                                    ELSE EmptyStatus]]
                     /\ UNCHANGED reconciled

\* Reconcile: r.Status().Update after the validation failure; the error is
\* only logged
InvalidWrite(w, ok) ==
    /\ wk[w].pc = "invalid.write"
    /\ LET n == wk[w].key
           mine == Returned(w, wk[w].snap, "nil", "none", "invalid")
       IN  Written(n, w, mine,
                   IF ok /\ wk[w].fresh
                   THEN [store EXCEPT ![n].st = wk[w].next] ELSE store)
    /\ reconciled' = ReconciledAfter(wk[w].snap, "nil")
    /\ UNCHANGED <<pods, clock, nextUID, ctxDone, ch, pctxDone, srv, fw>>

\* a Reconcile that goes on to provision once it has added the finalizer
FinalizerAddAndGoOn(w, ok) ==
    /\ wk[w].pc = "finalizer.add"
    /\ LET n == wk[w].key
           good == ok /\ wk[w].fresh
           mine == IF good
                   THEN [wk[w] EXCEPT !.pc = "pending.get", !.snap.fin = TRUE]
                   ELSE Returned(w, wk[w].snap, WriteErr(w, ok), "none", "finalizer")
       IN  /\ Written(n, w, mine,
                      IF good THEN [store EXCEPT ![n].fin = TRUE] ELSE store)
           /\ reconciled' = IF good THEN reconciled
                            ELSE ReconciledAfter(wk[w].snap, WriteErr(w, ok))
    /\ UNCHANGED <<pods, clock, nextUID, ctxDone, ch, pctxDone, srv, fw>>

\* Reconcile: AddFinalizer and r.Update
FinalizerAdd(w, ok) ==
    /\ wk[w].pc = "finalizer.add"
    /\ LET n == wk[w].key
           good == ok /\ wk[w].fresh
           mine == Returned(w, wk[w].snap, WriteErr(w, ok),
                            IF good THEN "now" ELSE "none", "finalizer")
       IN  /\ Written(n, w, mine,
                      IF good THEN [store EXCEPT ![n].fin = TRUE] ELSE store)
           /\ reconciled' = ReconciledAfter(wk[w].snap, WriteErr(w, ok))
    /\ UNCHANGED <<pods, clock, nextUID, ctxDone, ch, pctxDone, srv, fw>>

\* cleanup: Get of the pod named status.podName; anything but success
\* skips the Delete
CleanupGet(w, ok) ==
    /\ wk[w].pc = "cleanup.get"
    /\ LET nm == wk[w].snap.st.podName
       IN  wk' = [wk EXCEPT ![w] =
                    IF ok /\ PodExists(nm)
                    THEN [Goto(w, "cleanup.delete") EXCEPT !.pod = ThePod(nm)]
                    ELSE Goto(w, "finalizer.remove")]
    /\ UNCHANGED <<store, pods, clock, nextUID, ctxDone, sd, reconciled, ch, pctxDone, srv, fw>>

\* cleanup: Delete of the pod; an error is returned by Reconcile with
\* RequeueAfter 10 s
CleanupDelete(w, ok) ==
    /\ wk[w].pc = "cleanup.delete"
    /\ LET nm == wk[w].pod.name
           good == ok /\ PodExists(nm)
       IN  /\ pods' = IF good THEN pods \ PodsNamed(nm) ELSE pods
           /\ wk' = [wk EXCEPT ![w] =
                        IF good THEN Goto(w, "finalizer.remove")
                        ELSE Returned(w, wk[w].snap,
                                      IF ok THEN "NotFound" ELSE "error",
                                      "10s", "cleanup")]
    /\ UNCHANGED <<store, clock, nextUID, ctxDone, sd, reconciled, ch, pctxDone, srv, fw>>

\* Reconcile: RemoveFinalizer and r.Update; the store purges the record
FinalizerRemove(w, ok) ==
    /\ wk[w].pc = "finalizer.remove"
    /\ LET n == wk[w].key
           good == ok /\ wk[w].fresh
           mine == Returned(w, wk[w].snap, WriteErr(w, ok), "none", "deleted")
       IN  /\ Written(n, w, mine, IF good THEN Purged(n) ELSE store)
           /\ reconciled' = reconciled \cap
                                LiveIn(IF good THEN Purged(n) ELSE store)
    /\ UNCHANGED <<pods, clock, nextUID, ctxDone, ch, pctxDone, srv, fw>>

\* handlePendingBuild: Get of the pod nix-builder-<sessionId>
PendingGet(w, ok) ==
    /\ wk[w].pc = "pending.get"
    /\ LET b == wk[w].snap
           nm == PodNameFor(b.sid)
       IN  IF ~ok THEN Leave(w, "error", "none", "pending")
           ELSE /\ wk' = [wk EXCEPT ![w] =
                            IF PodExists(nm)
                            THEN [Goto(w, "updateStatus") EXCEPT
                                     !.pod = ThePod(nm),
                                     !.next = AdoptedStatus(b.st, nm, clock)]
                            ELSE Goto(w, "pending.create")]
                /\ UNCHANGED <<store, sd, reconciled>>
    /\ UNCHANGED <<pods, clock, nextUID, ctxDone, ch, pctxDone, srv, fw>>

\* a handlePendingBuild that writes the status whatever r.Create returned
PendingCreateUnchecked(w, ok) ==
    /\ wk[w].pc = "pending.create"
    /\ LET b == wk[w].snap
           pod == createBuilderPod(b)
       IN  /\ pods' = IF ok /\ ~PodExists(pod.name) THEN pods \cup {pod} ELSE pods
           /\ wk' = [wk EXCEPT ![w] =
                        [Goto(w, "pending.write") EXCEPT
                            !.pod = pod,
                            !.next = CreatedStatus(b.st, pod.name, clock)]]
           /\ UNCHANGED <<store, sd, reconciled>>
    /\ UNCHANGED <<clock, nextUID, ctxDone, ch, pctxDone, srv, fw>>

\* handlePendingBuild: createBuilderPod and r.Create; the store refuses a
\* second pod of the same name (AlreadyExists)
PendingCreate(w, ok) ==
    /\ wk[w].pc = "pending.create"
    /\ LET b == wk[w].snap
           pod == createBuilderPod(b)
       IN  IF ok /\ ~PodExists(pod.name)
           THEN /\ pods' = pods \cup {pod}
                /\ wk' = [wk EXCEPT ![w] =
                            [Goto(w, "pending.write") EXCEPT
                                !.pod = pod,
                                !.next = CreatedStatus(b.st, pod.name, clock)]]
                /\ UNCHANGED <<store, sd, reconciled>>
           ELSE /\ Leave(w, IF ok THEN "AlreadyExists" ELSE "error",
                         "2s", "pending")
                /\ UNCHANGED pods
    /\ UNCHANGED <<clock, nextUID, ctxDone, ch, pctxDone, srv, fw>>

\* handlePendingBuild: r.Status().Update after the create
PendingWrite(w, ok) ==
    /\ wk[w].pc = "pending.write"
    /\ LET n == wk[w].key
           good == ok /\ wk[w].fresh
           mine == Returned(w, wk[w].snap, WriteErr(w, ok),
                            IF good THEN "5s" ELSE "none", "pending")
       IN  /\ Written(n, w, mine,
                      IF good THEN [store EXCEPT ![n].st = wk[w].next] ELSE store)
           /\ reconciled' = ReconciledAfter(wk[w].snap, WriteErr(w, ok))
    /\ UNCHANGED <<pods, clock, nextUID, ctxDone, ch, pctxDone, srv, fw>>

\* updateStatus: r.Status().Update, returning (ctrl.Result{}, err)
UpdateStatus(w, ok) ==
    /\ wk[w].pc = "updateStatus"
    /\ LET n == wk[w].key
           good == ok /\ wk[w].fresh
           mine == Returned(w, wk[w].snap, WriteErr(w, ok), "none",
                            IF wk[w].snap.st.phase \in {"", "Pending"} THEN "pending"
                            ELSE IF wk[w].snap.st.phase = "Creating" THEN "creating"
                            ELSE "running")
       IN  /\ Written(n, w, mine,
                      IF good THEN [store EXCEPT ![n].st = wk[w].next] ELSE store)
           /\ reconciled' = ReconciledAfter(wk[w].snap, WriteErr(w, ok))
    /\ UNCHANGED <<pods, clock, nextUID, ctxDone, ch, pctxDone, srv, fw>>

\* a handleCreatingBuild that never finds its pod ready
CreatingDecisionNeverReady(st, found, pod, now) ==
    IF ~found THEN [pc |-> "updateStatus", next |-> RolledBackStatus(st)]
    ELSE IF pod.phase = "Failed"
         THEN [pc |-> "updateStatus", next |-> CreatingFailedStatus(st, now)]
    ELSE [pc |-> "return", next |-> st]

\* handleCreatingBuild after its Get of the pod named status.podName
CreatingDecision(st, found, pod, now) ==
    IF ~found THEN [pc |-> "updateStatus", next |-> RolledBackStatus(st)]
    ELSE IF PodReady(pod) THEN [pc |-> "creating.write", next |-> ReadyStatus(st, pod)]
    ELSE IF pod.phase = "Failed"
         THEN [pc |-> "updateStatus", next |-> CreatingFailedStatus(st, now)]
    ELSE [pc |-> "return", next |-> st]

\* handleCreatingBuild: Get of the pod
CreatingGet(w, ok) ==
    /\ wk[w].pc = "creating.get"
    /\ LET b == wk[w].snap
           nm == b.st.podName
           found == PodExists(nm)
           pod == IF found THEN ThePod(nm) ELSE NoPod
           d == CreatingDecision(b.st, found, pod, clock)
       IN  IF ~ok THEN Leave(w, "error", "none", "creating")
           ELSE IF d.pc = "return" THEN Leave(w, "nil", "2s", "creating")
           ELSE /\ wk' = [wk EXCEPT ![w] =
                            [Goto(w, d.pc) EXCEPT !.pod = pod, !.next = d.next]]
                /\ UNCHANGED <<store, sd, reconciled>>
    /\ UNCHANGED <<pods, clock, nextUID, ctxDone, ch, pctxDone, srv, fw>>

\* handleCreatingBuild: r.Status().Update for the ready pod
CreatingWrite(w, ok) ==
    /\ wk[w].pc = "creating.write"
    /\ LET n == wk[w].key
           good == ok /\ wk[w].fresh
           mine == Returned(w, wk[w].snap, WriteErr(w, ok), "none", "creating")
       IN  /\ Written(n, w, mine,
                      IF good THEN [store EXCEPT ![n].st = wk[w].next] ELSE store)
           /\ reconciled' = ReconciledAfter(wk[w].snap, WriteErr(w, ok))
    /\ UNCHANGED <<pods, clock, nextUID, ctxDone, ch, pctxDone, srv, fw>>

\* a Running record that is rolled back like a Creating one
RunningDecisionRollback(st, found, pod, now) ==
    IF ~found THEN [pc |-> "updateStatus", next |-> RolledBackStatus(st)]
    ELSE IF pod.phase = "Succeeded"
         THEN [pc |-> "updateStatus", next |-> SucceededStatus(st, now)]
    ELSE IF pod.phase = "Failed"
         THEN [pc |-> "updateStatus", next |-> RunningFailedStatus(st, now)]
    ELSE [pc |-> "return", next |-> st]

\* handleRunningBuild after its Get of the pod named status.podName
RunningDecision(st, found, pod, now) ==
    IF ~found THEN [pc |-> "updateStatus", next |-> PodDeletedStatus(st, now)]
    ELSE IF pod.phase = "Succeeded"
         THEN [pc |-> "updateStatus", next |-> SucceededStatus(st, now)]
    ELSE IF pod.phase = "Failed"
         THEN [pc |-> "updateStatus", next |-> RunningFailedStatus(st, now)]
    ELSE [pc |-> "return", next |-> st]

\* handleRunningBuild: Get of the pod
RunningGet(w, ok) ==
    /\ wk[w].pc = "running.get"
    /\ LET b == wk[w].snap
           nm == b.st.podName
           found == PodExists(nm)
           pod == IF found THEN ThePod(nm) ELSE NoPod
           d == RunningDecision(b.st, found, pod, clock)
       IN  IF ~ok THEN Leave(w, "error", "none", "running")
           ELSE IF d.pc = "return" THEN Leave(w, "nil", "10s", "running")
           ELSE /\ wk' = [wk EXCEPT ![w] =
                            [Goto(w, d.pc) EXCEPT !.pod = pod, !.next = d.next]]
                /\ UNCHANGED <<store, sd, reconciled>>
    /\ UNCHANGED <<pods, clock, nextUID, ctxDone, ch, pctxDone, srv, fw>>

\* handleCompletedBuild: Get of the pod once the record is old enough
CompletedGet(w, ok) ==
    /\ wk[w].pc = "completed.get"
    /\ LET nm == wk[w].snap.st.podName
       IN  IF ok /\ PodExists(nm)
           THEN /\ wk' = [wk EXCEPT ![w] =
                            [Goto(w, "completed.delete") EXCEPT !.pod = ThePod(nm)]]
                /\ UNCHANGED <<store, sd, reconciled>>
           ELSE Leave(w, "nil", "none", "completed")
    /\ UNCHANGED <<pods, clock, nextUID, ctxDone, ch, pctxDone, srv, fw>>

\* handleCompletedBuild: Delete of the pod; an error is only logged
CompletedDelete(w, ok) ==
    /\ wk[w].pc = "completed.delete"
    /\ LET nm == wk[w].pod.name
       IN  pods' = IF ok THEN pods \ PodsNamed(nm) ELSE pods
    /\ Leave(w, "nil", "none", "completed")
    /\ UNCHANGED <<clock, nextUID, ctxDone, ch, pctxDone, srv, fw>>

-----------------------------------------------------------------------------
(* Controller shutdown: rootCmd.Run after mgr.Start has returned           *)

\* SIGINT/SIGTERM: signal.NotifyContext cancels the root context
Signal ==
    /\ ~ctxDone
    /\ ctxDone' = TRUE
    /\ UNCHANGED <<store, pods, clock, nextUID, wk, sd, reconciled, ch, pctxDone, srv, fw>>

\* GracefulShutdown: r.List; the workers have stopped by now
ShutdownList(ok) ==
    /\ ctxDone /\ sd.pc = "run"
    /\ \A w \in Workers : wk[w].pc = "idle"
    /\ sd' = IF ok
             THEN [pc |-> "loop",
                   items |-> {[name |-> n, st |-> store[n].st, fresh |-> TRUE]
                                : n \in {m \in RecNames : Exists(m)}},
                   listed |-> {[name |-> n, uid |-> store[n].uid,
                                phase |-> store[n].st.phase]
                                : n \in {m \in RecNames : Exists(m)}},
                   clean |-> TRUE]
             ELSE [NoShutdown EXCEPT !.pc = "exit", !.clean = FALSE]
    /\ UNCHANGED <<store, pods, clock, nextUID, wk, ctxDone, reconciled, ch, pctxDone, srv, fw>>

\* GracefulShutdown: one iteration of the loop over buildReqs.Items
ShutdownItem(i, ok) ==
    /\ sd.pc = "loop" /\ i \in sd.items
    /\ LET good == ok /\ i.fresh /\ ShutdownMarks(i.st)
           newStore == IF good
                       THEN [store EXCEPT ![i.name].st = ShutdownStatus(i.st, clock)]
                       ELSE store
       IN  /\ store' = newStore
           /\ sd' = [SdAfterWrite(i.name, {i}) EXCEPT
                        !.clean = @ /\ (ShutdownMarks(i.st) => good)]
           /\ wk' = IF newStore = store THEN wk
                    ELSE WkAfterWrite(i.name, "nobody", IdleWorker)
    /\ UNCHANGED <<pods, clock, nextUID, ctxDone, reconciled, ch, pctxDone, srv, fw>>

\* GracefulShutdown returns and the process exits
ShutdownDone ==
    /\ sd.pc = "loop" /\ sd.items = {}
    /\ sd' = [sd EXCEPT !.pc = "exit"]
    /\ UNCHANGED <<store, pods, clock, nextUID, wk, ctxDone, reconciled, ch, pctxDone, srv, fw>>

\* the controller is started again (a new process)
Restart ==
    /\ sd.pc = "exit"
    /\ sd' = NoShutdown
    /\ ctxDone' = FALSE
    /\ UNCHANGED <<store, pods, clock, nextUID, wk, reconciled, ch, pctxDone, srv, fw>>

-----------------------------------------------------------------------------
(* The controller with its clients and the cluster                         *)

\* the finalizer and the deletion of a record
FinalizeStep(w) ==
    \/ \E ok \in BOOLEAN : FinalizerAdd(w, ok)
    \/ \E ok \in BOOLEAN : CleanupGet(w, ok)
    \/ \E ok \in BOOLEAN : CleanupDelete(w, ok)
    \/ \E ok \in BOOLEAN : FinalizerRemove(w, ok)

\* handlePendingBuild, and handleCreatingBuild while the pod is not ready
ProvisionStep(w) ==
    \/ \E ok \in BOOLEAN : PendingGet(w, ok)
    \/ \E ok \in BOOLEAN : PendingCreate(w, ok)
    \/ \E ok \in BOOLEAN : PendingWrite(w, ok)
    \/ \E ok \in BOOLEAN : UpdateStatus(w, ok)
    \/ \E ok \in BOOLEAN : CreatingGet(w, ok)

\* handleCreatingBuild for a ready pod, and handleRunningBuild
RunStep(w) ==
    \/ \E ok \in BOOLEAN : CreatingWrite(w, ok)
    \/ \E ok \in BOOLEAN : RunningGet(w, ok)

\* handleCompletedBuild once completionTime is old enough
CollectStep(w) ==
    \/ \E ok \in BOOLEAN : CompletedGet(w, ok)
    \/ \E ok \in BOOLEAN : CompletedDelete(w, ok)

Cluster ==
    \/ \E p \in pods : PodStart(p)
    \/ \E p \in pods : \E ip \in PodIPs : PodAssignIP(p, ip)
    \/ \E p \in pods : PodSucceed(p)
    \/ \E p \in pods : PodFail(p)
    \/ \E p \in pods : PodEvict(p)
    \/ \E p \in pods : PodGC(p)
    \/ \E t \in Instants : Tick(t)

Shutdown ==
    \/ Signal
    \/ \E ok \in BOOLEAN : ShutdownList(ok)
    \/ \E i \in sd.items : \E ok \in BOOLEAN : ShutdownItem(i, ok)
    \/ ShutdownDone
    \/ Restart

-----------------------------------------------------------------------------
(* The proxy: handleChannel for the channels of one client connection,     *)
(* whose session.ID is GoodID                                              *)

SessionRecord == BuildReqName(GoodID)

\* handleConnection: a channel arrives on chans, go p.handleChannel
ChannelOpen(c, t) ==
    /\ ch[c].pc = "none"
    /\ ch' = [ch EXCEPT ![c] = [@ EXCEPT !.pc = "new", !.type = t]]
    /\ UNCHANGED <<ctlVars, pctxDone, srv, fw>>

\* the reason handleChannel gives to newChannel.Reject
UnknownChannelType == "UnknownChannelType"

\* a handleChannel that accepts a channel of any type
ChannelRejectSkipped(c) ==
    /\ ch[c].pc = "new" /\ ch[c].type # "session"
    /\ ch' = [ch EXCEPT ![c] = [@ EXCEPT !.pc = "create"]]
    /\ UNCHANGED <<ctlVars, pctxDone, srv, fw>>

\* handleChannel: newChannel.Reject for a type other than "session"
ChannelReject(c) ==
    /\ ch[c].pc = "new" /\ ch[c].type # "session"
    /\ ch' = [ch EXCEPT ![c] = [@ EXCEPT !.pc = "done", !.exit = UnknownChannelType]]
    /\ UNCHANGED <<ctlVars, pctxDone, srv, fw>>

\* handleChannel: newChannel.Accept
ChannelAccept(c, ok) ==
    /\ ch[c].pc = "new" /\ ch[c].type = "session"
    /\ ch' = [ch EXCEPT ![c] =
                IF ok THEN [@ EXCEPT !.pc = "create"]
                ELSE [@ EXCEPT !.pc = "done", !.exit = "accept"]]
    /\ UNCHANGED <<ctlVars, pctxDone, srv, fw>>

\* a handler that registers its deferred Delete before it creates the record
CreateWithDeferredDelete(c, ok) ==
    /\ ch[c].pc = "create"
    /\ IF ok /\ ~pctxDone /\ ~Exists(SessionRecord) /\ nextUID <= MaxUID
       THEN /\ store' = [store EXCEPT ![SessionRecord] =
                            [uid |-> nextUID, name |-> SessionRecord,
                             sid |-> GoodID, fin |-> FALSE, del |-> FALSE,
                             st |-> EmptyStatus]]
            /\ nextUID' = nextUID + 1
            /\ ch' = [ch EXCEPT ![c] = [@ EXCEPT !.pc = "wait", !.created = TRUE]]
       ELSE /\ ch' = [ch EXCEPT ![c] = [@ EXCEPT !.pc = "delete", !.exit = "create"]]
            /\ UNCHANGED <<store, nextUID>>
    /\ UNCHANGED <<pods, clock, wk, ctxDone, sd, reconciled, pctxDone, srv, fw>>

\* createBuildRequest: k8sClient.Create under the ambient context; when it
\* fails handleChannel returns and its deferred channel.Close runs
CreateBuildRequest(c, ok) ==
    /\ ch[c].pc = "create"
    /\ IF ok /\ ~pctxDone /\ ~Exists(SessionRecord) /\ nextUID <= MaxUID
       THEN /\ store' = [store EXCEPT ![SessionRecord] =
                            [uid |-> nextUID, name |-> SessionRecord,
                             sid |-> GoodID, fin |-> FALSE, del |-> FALSE,
                             st |-> EmptyStatus]]
            /\ nextUID' = nextUID + 1
            /\ ch' = [ch EXCEPT ![c] = [@ EXCEPT !.pc = "wait", !.created = TRUE]]
       ELSE /\ ch' = [ch EXCEPT ![c] = [@ EXCEPT !.pc = "done", !.exit = "create",
                                                !.client = "closed"]]
            /\ UNCHANGED <<store, nextUID>>
    /\ UNCHANGED <<pods, clock, wk, ctxDone, sd, reconciled, pctxDone, srv, fw>>

\* waitForBuilderPod: case <-ctx.Done()
WaitCancelled(c) ==
    /\ ch[c].pc = "wait" /\ pctxDone
    /\ ch' = [ch EXCEPT ![c] = [@ EXCEPT !.pc = "delete", !.exit = "cancelled"]]
    /\ UNCHANGED <<ctlVars, pctxDone, srv, fw>>

\* a wait with no ceiling of its own, given up only on cancellation
WaitTimeoutOnCancel(c) ==
    /\ ch[c].pc = "wait" /\ pctxDone
    /\ ch' = [ch EXCEPT ![c] = [@ EXCEPT !.pc = "delete", !.exit = "timeout"]]
    /\ UNCHANGED <<ctlVars, pctxDone, srv, fw>>

\* waitForBuilderPod: case <-timeout (2 minutes)
WaitTimeout(c) ==
    /\ ch[c].pc = "wait"
    /\ ch' = [ch EXCEPT ![c] = [@ EXCEPT !.pc = "delete", !.exit = "timeout"]]
    /\ UNCHANGED <<ctlVars, pctxDone, srv, fw>>

\* a wait that is content with any record that carries an address
WaitReadyAnyPhase(st) == st.podIP # ""

\* waitForBuilderPod: the test on the record it has read
WaitReady(st) == st.phase = "Running" /\ st.podIP # ""

\* waitForBuilderPod: case <-ticker.C, Get of build-<session.ID>; an error
\* or a record that is not ready goes round the loop
WaitPoll(c, ok) ==
    /\ ch[c].pc = "wait"
    /\ ok /\ ~pctxDone /\ Exists(SessionRecord)
    /\ WaitReady(store[SessionRecord].st)
    /\ ch' = [ch EXCEPT ![c] =
                [@ EXCEPT !.pc = "dial", !.obs = store[SessionRecord].st]]
    /\ UNCHANGED <<ctlVars, pctxDone, srv, fw>>

\* routeToBuilder: fmt.Sprintf("%s:%d", podIP, p.remotePort)
BuilderAddr(podIP) == <<podIP, RemotePort>>

\* routeToBuilder: ssh.Dial
DialBuilder(c, ok) ==
    /\ ch[c].pc = "dial"
    /\ ch' = [ch EXCEPT ![c] =
                IF ok
                THEN [@ EXCEPT !.pc = "open", !.dialed = BuilderAddr(ch[c].obs.podIP),
                               !.builder = "open"]
                ELSE [@ EXCEPT !.pc = "delete", !.dialed = BuilderAddr(ch[c].obs.podIP),
                               !.exit = "dial"]]
    /\ UNCHANGED <<ctlVars, pctxDone, srv, fw>>

\* routeToBuilder: builderConn.OpenChannel, then the four goroutines
OpenBuilderChannel(c, ok) ==
    /\ ch[c].pc = "open"
    /\ ch' = [ch EXCEPT ![c] =
                IF ok /\ ch[c].builder = "open"
                THEN [@ EXCEPT !.pc = "splice", !.tasks = SpliceTasks]
                ELSE [@ EXCEPT !.pc = "delete", !.exit = "open",
                               !.builder = "closed"]]
    /\ UNCHANGED <<ctlVars, pctxDone, srv, fw>>

\* when a task of the splice returns: forwardRequests on ctx.Done() or on
\* its closed request channel, io.Copy on EOF of its source or on a failed
\* write to its destination
TaskMayExit(c, t) ==
    CASE t = "req.c2b" -> pctxDone \/ ch[c].client = "closed"
      [] t = "req.b2c" -> pctxDone \/ ch[c].builder = "closed"
      [] t = "copy.c2b" -> ch[c].client = "closed" \/ ch[c].builder = "closed"
      [] t = "copy.b2c" -> ch[c].builder = "closed" \/ ch[c].client = "closed"

\* routeToBuilder: one of the goroutines returns (wg.Done)
TaskExit(c, t) ==
    /\ ch[c].pc = "splice" /\ t \in ch[c].tasks
    /\ TaskMayExit(c, t)
    /\ ch' = [ch EXCEPT ![c] = [@ EXCEPT !.tasks = @ \ {t}]]
    /\ UNCHANGED <<ctlVars, pctxDone, srv, fw>>

\* a routeToBuilder that returns as soon as one goroutine has returned
SpliceReturnEarly(c) ==
    /\ ch[c].pc = "splice" /\ ch[c].tasks # SpliceTasks
    /\ ch' = [ch EXCEPT ![c] = [@ EXCEPT !.pc = "delete", !.exit = "splice",
                                         !.builder = "closed"]]
    /\ UNCHANGED <<ctlVars, pctxDone, srv, fw>>

\* routeToBuilder: wg.Wait() returns, the deferred closes run
SpliceReturn(c) ==
    /\ ch[c].pc = "splice" /\ ch[c].tasks = {}
    /\ ch' = [ch EXCEPT ![c] = [@ EXCEPT !.pc = "delete", !.exit = "splice",
                                         !.builder = "closed"]]
    /\ UNCHANGED <<ctlVars, pctxDone, srv, fw>>

\* a deleteCtx derived from the ambient context
DeleteCtxFromAmbient(ambientDone) == ~ambientDone

\* handleChannel, the deferred func: whether its deleteCtx is live, given
\* whether the ambient context is cancelled (context.Background())
DeleteCtxLive(ambientDone) == TRUE

\* handleChannel, the deferred func: k8sClient.Delete with deleteCtx, then
\* the deferred channel.Close
DeferredDelete(c, ok) ==
    /\ ch[c].pc = "delete"
    /\ LET issued == DeleteCtxLive(pctxDone)
           newStore == IF issued /\ ok THEN StoreAfterDelete(SessionRecord)
                       ELSE store
       IN  /\ store' = newStore
           /\ reconciled' = reconciled \cap LiveIn(newStore)
           /\ wk' = IF newStore = store THEN wk
                    ELSE WkAfterWrite(SessionRecord, "nobody", IdleWorker)
           /\ sd' = IF newStore = store THEN sd ELSE SdAfterWrite(SessionRecord, {})
           /\ ch' = [ch EXCEPT ![c] =
                        [@ EXCEPT !.pc = "done", !.deleted = issued,
                                  !.client = "closed"]]
    /\ UNCHANGED <<pods, clock, nextUID, ctxDone, pctxDone, srv, fw>>

\* SIGINT/SIGTERM to the proxy: the ambient context is cancelled
ProxyCancel ==
    /\ ~pctxDone
    /\ pctxDone' = TRUE
    /\ UNCHANGED <<ctlVars, ch, srv, fw>>

\* the client closes its channel (or its connection)
ClientClose(c) ==
    /\ ch[c].pc \notin {"none", "new", "done"}
    /\ ch[c].client = "open"
    /\ ch' = [ch EXCEPT ![c] = [@ EXCEPT !.client = "closed"]]
    /\ UNCHANGED <<ctlVars, pctxDone, srv, fw>>

\* the worker closes its channel (the build is over, or the pod dies)
BuilderClose(c) ==
    /\ ch[c].pc = "splice"
    /\ ch[c].builder = "open"
    /\ ch' = [ch EXCEPT ![c] = [@ EXCEPT !.builder = "closed"]]
    /\ UNCHANGED <<ctlVars, pctxDone, srv, fw>>

HandleChannel(c) ==
    \/ \E t \in ChannelTypes : ChannelOpen(c, t)
    \/ ChannelReject(c)
    \/ \E ok \in BOOLEAN : ChannelAccept(c, ok)
    \/ \E ok \in BOOLEAN : CreateBuildRequest(c, ok)
    \/ WaitCancelled(c)
    \/ WaitTimeout(c)
    \/ \E ok \in BOOLEAN : WaitPoll(c, ok)
    \/ \E ok \in BOOLEAN : DialBuilder(c, ok)
    \/ \E ok \in BOOLEAN : OpenBuilderChannel(c, ok)
    \/ \E t \in SpliceTasks : TaskExit(c, t)
    \/ SpliceReturn(c)
    \/ \E ok \in BOOLEAN : DeferredDelete(c, ok)
    \/ ClientClose(c)
    \/ BuilderClose(c)

-----------------------------------------------------------------------------
(* Reconcile as one step                                                   *)

\* Reconcile run alone from its Get to its return, every call it makes
\* succeeding: the store and the pods it leaves
Reconcile(S, P, n, now) ==
    IF S[n] = NoObj THEN [store |-> S, pods |-> P]
    ELSE
      LET b == S[n]
          pc == Dispatch(b, now)
          named(nm) == {p \in P : p.name = nm}
          found(nm) == named(nm) # {}
          pod(nm) == IF found(nm) THEN CHOOSE p \in P : p.name = nm ELSE NoPod
          withSt(st) == [store |-> [S EXCEPT ![n].st = st], pods |-> P]
          own == b.st.podName
      IN  CASE pc = "invalid.write" ->
                  withSt(InvalidStatus(b.st, validateSessionID(b.sid), now))
            [] pc = "finalizer.add" ->
                  [store |-> [S EXCEPT ![n].fin = TRUE], pods |-> P]
            [] pc = "cleanup.get" ->
                  [store |-> [S EXCEPT ![n] = NoObj], pods |-> P \ named(own)]
            [] pc = "finalizer.remove" ->
                  [store |-> [S EXCEPT ![n] = NoObj], pods |-> P]
            [] pc = "pending.get" ->
                  IF found(PodNameFor(b.sid))
                  THEN withSt(AdoptedStatus(b.st, PodNameFor(b.sid), now))
                  ELSE [store |-> [S EXCEPT ![n].st =
                                     CreatedStatus(b.st, createBuilderPod(b).name, now)],
                        pods |-> P \cup {createBuilderPod(b)}]
            [] pc = "creating.get" ->
                  withSt(CreatingDecision(b.st, found(own), pod(own), now).next)
            [] pc = "running.get" ->
                  withSt(RunningDecision(b.st, found(own), pod(own), now).next)
            [] pc = "completed.get" ->
                  [store |-> S, pods |-> P \ named(own)]
            [] OTHER -> [store |-> S, pods |-> P]

\* the status of record n in a result of Reconcile (NoStatus: no record)
StatusAfter(r, n) == IF r.store[n] = NoObj THEN NoStatus ELSE r.store[n].st

-----------------------------------------------------------------------------
(* Specifications                                                          *)

\* the store holds no record
NoRecord == \A n \in RecNames : ~Exists(n)

\* one reconcile worker, records with a valid and with an invalid sessionId
\* (one record at a time), the cluster, shutdown and restart
Next ==
    \/ NoRecord /\ ClientCreate(GoodRequest)
    \/ \E r \in BadRequests : NoRecord /\ ClientCreate(r)
    \/ \E n \in {GoodName, BadName} : ClientDelete(n)
    \/ Cluster
    \/ \E n \in {GoodName, BadName} : \E ok \in BOOLEAN : ReconcileStart("w1", n, ok)
    \/ \E ok \in BOOLEAN : InvalidWrite("w1", ok)
    \/ FinalizeStep("w1")
    \/ ProvisionStep("w1")
    \/ RunStep("w1")
    \/ CollectStep("w1")
    \/ Shutdown

Spec == Init /\ [][Next]_vars

\* two reconcile workers (two controller replicas: the manager is built
\* without leader election) and two records that carry the same sessionId;
\* the second worker serves the first record only, which is also the one
\* that is deleted and created again; no pod is ever started
ConcNext ==
    \/ ClientCreate(GoodRequest)
    \/ ClientCreate(DupRequest)
    \/ ClientDelete(GoodName)
    \/ \E p \in pods : PodEvict(p)
    \/ \E p \in pods : PodGC(p)
    \/ \E n \in {GoodName, DupName} : \E ok \in BOOLEAN : ReconcileStart("w1", n, ok)
    \/ \E ok \in BOOLEAN : ReconcileStart("w2", GoodName, ok)
    \/ \E w \in Workers : FinalizeStep(w)
    \/ \E w \in Workers : ProvisionStep(w)

ConcSpec == Init /\ [][ConcNext]_vars

\* the controller is stopped while two records are in the store, in any
\* of their phases (the two share the sessionId, hence the pod)
ShutNext ==
    \/ ClientCreate(GoodRequest)
    \/ ClientCreate(DupRequest)
    \/ ClientDelete(GoodName)
    \/ \E p \in pods : PodStart(p)
    \/ \E p \in pods : \E ip \in PodIPs : PodAssignIP(p, ip)
    \/ \E p \in pods : PodSucceed(p)
    \/ \E p \in pods : PodFail(p)
    \/ \E n \in {GoodName, DupName} : \E ok \in BOOLEAN : ReconcileStart("w1", n, ok)
    \/ FinalizeStep("w1")
    \/ ProvisionStep("w1")
    \/ RunStep("w1")
    \/ Signal
    \/ \E ok \in BOOLEAN : ShutdownList(ok)
    \/ \E i \in sd.items : \E ok \in BOOLEAN : ShutdownItem(i, ok)
    \/ ShutdownDone

ShutSpec == Init /\ [][ShutNext]_vars

\* the proxy serving one client connection, with the reconciler and the
\* cluster behind the store
ProxyNext ==
    \/ \E c \in Channels : HandleChannel(c)
    \/ ProxyCancel
    \/ \E p \in pods : PodStart(p)
    \/ \E p \in pods : \E ip \in PodIPs : PodAssignIP(p, ip)
    \/ \E p \in pods : PodSucceed(p)
    \/ \E p \in pods : PodFail(p)
    \/ \E p \in pods : PodEvict(p)
    \/ \E p \in pods : PodGC(p)
    \/ \E ok \in BOOLEAN : ReconcileStart("w1", SessionRecord, ok)
    \/ FinalizeStep("w1")
    \/ ProvisionStep("w1")
    \/ RunStep("w1")

ProxySpec == Init /\ [][ProxyNext]_vars

\* one record created with any sessionId, and Reconcile up to its dispatch:
\* the validation, the status write for an invalid sessionId, the finalizer
ValidateNext ==
    \/ \E s \in SessionIDs :
          nextUID = 1 /\ ClientCreate([name |-> BadName, sid |-> s])
    \/ \E ok \in BOOLEAN : ReconcileStart("w1", BadName, ok)
    \/ \E ok \in BOOLEAN : InvalidWrite("w1", ok)
    \/ \E ok \in BOOLEAN : FinalizerAdd("w1", ok)

ValidateSpec == Init /\ [][ValidateNext]_vars

-----------------------------------------------------------------------------
(* forwardRequests                                                         *)

\* a forwarder that acknowledges whatever the downstream said
ReplyAlways(accepted, failed) == TRUE

\* forwardRequests: the argument of req.Reply, accepted && err == nil
ReplyOK(accepted, failed) == accepted /\ ~failed

\* the originator sends a request on its side, or closes it
Originate ==
    \/ /\ fw.open /\ Len(fw.asked) < MaxReqs
       /\ \E r \in Requests :
             fw' = [fw EXCEPT !.src = Append(@, r), !.asked = Append(@, r)]
       /\ UNCHANGED <<ctlVars, ch, pctxDone, srv>>
    \/ /\ fw.open
       /\ fw' = [fw EXCEPT !.open = FALSE]
       /\ UNCHANGED <<ctlVars, ch, pctxDone, srv>>

\* forwardRequests: the select (ctx.Done(), a request from src, src closed),
\* dst.SendRequest with what it returns (without wantReply it does not wait
\* for the downstream), req.Reply (which sends nothing without wantReply)
forwardRequests ==
    \/ /\ fw.pc = "recv" /\ pctxDone
       /\ fw' = [fw EXCEPT !.pc = "returned"]
       /\ UNCHANGED <<ctlVars, ch, pctxDone, srv>>
    \/ /\ fw.pc = "recv" /\ fw.src = <<>> /\ ~fw.open
       /\ fw' = [fw EXCEPT !.pc = "returned"]
       /\ UNCHANGED <<ctlVars, ch, pctxDone, srv>>
    \/ /\ fw.pc = "recv" /\ fw.src # <<>>
       /\ fw' = [fw EXCEPT !.pc = "send", !.src = Tail(@), !.cur = @ + 1]
       /\ UNCHANGED <<ctlVars, ch, pctxDone, srv>>
    \/ /\ fw.pc = "send"
       /\ \E accepted, failed \in BOOLEAN :
             /\ failed => ~accepted
             /\ accepted => fw.asked[fw.cur].wantReply
             /\ fw' = [fw EXCEPT !.pc = "reply",
                                 !.sent = Append(@, [type |-> fw.asked[fw.cur].type,
                                                     payload |-> fw.asked[fw.cur].payload,
                                                     wantReply |-> fw.asked[fw.cur].wantReply,
                                                     accepted |-> accepted,
                                                     failed |-> failed])]
       /\ UNCHANGED <<ctlVars, ch, pctxDone, srv>>
    \/ /\ fw.pc = "reply"
       /\ fw' = [fw EXCEPT !.pc = "recv",
                           !.replies =
                               IF fw.asked[fw.cur].wantReply
                               THEN Append(@, [req |-> fw.cur,
                                               ok |-> ReplyOK(fw.sent[fw.cur].accepted,
                                                              fw.sent[fw.cur].failed)])
                               ELSE @]
       /\ UNCHANGED <<ctlVars, ch, pctxDone, srv>>

\* one direction of a splice: the originator, the forwarder, the signal
ForwardNext ==
    \/ Originate
    \/ forwardRequests
    \/ ProxyCancel

ForwardSpec == Init /\ [][ForwardNext]_vars

-----------------------------------------------------------------------------
(* SSHProxy.Start and gracefulShutdown                                     *)

\* Start, the accept goroutine: the shutdownChan test at the top of the
\* loop, listener.Accept, then the send on connChan (or on errChan) unless
\* shutdownChan is closed, in which case the connection is closed
Acceptor ==
    \/ /\ srv.acc = "top" /\ srv.closed
       /\ srv' = [srv EXCEPT !.acc = "stopped"]
       /\ UNCHANGED <<ctlVars, ch, pctxDone, fw>>
    \/ /\ srv.acc = "top" /\ ~srv.closed
       /\ srv' = [srv EXCEPT !.acc = "accept"]
       /\ UNCHANGED <<ctlVars, ch, pctxDone, fw>>
    \/ /\ srv.acc = "accept"
       /\ \E k \in Conns :
             /\ srv.conn[k] = "none"
             /\ srv' = [srv EXCEPT !.acc = "send", !.held = k,
                                   !.conn[k] = "accepted"]
       /\ UNCHANGED <<ctlVars, ch, pctxDone, fw>>
    \/ /\ srv.acc = "accept"
       /\ srv' = [srv EXCEPT !.acc = "fail"]
       /\ UNCHANGED <<ctlVars, ch, pctxDone, fw>>
    \/ /\ srv.acc = "fail" /\ srv.closed
       /\ srv' = [srv EXCEPT !.acc = "stopped"]
       /\ UNCHANGED <<ctlVars, ch, pctxDone, fw>>
    \/ /\ srv.acc = "send" /\ srv.closed
       /\ srv' = [srv EXCEPT !.acc = "stopped", !.held = "-",
                             !.conn[srv.held] = "closed"]
       /\ UNCHANGED <<ctlVars, ch, pctxDone, fw>>

\* Start, the select of its loop: ctx.Done() calls gracefulShutdown, errChan
\* returns, connChan starts handleConnection under activeConns
Start ==
    \/ /\ srv.pc = "serve" /\ pctxDone
       /\ srv' = [srv EXCEPT !.pc = "mark"]
       /\ UNCHANGED <<ctlVars, ch, pctxDone, fw>>
    \/ /\ srv.pc = "serve" /\ srv.acc = "fail"
       /\ srv' = [srv EXCEPT !.pc = "returned", !.acc = "stopped",
                             !.ret = IF pctxDone THEN "ctx" ELSE "accept"]
       /\ UNCHANGED <<ctlVars, ch, pctxDone, fw>>
    \/ /\ srv.pc = "serve" /\ srv.acc = "send"
       /\ srv' = [srv EXCEPT !.acc = "top", !.held = "-",
                             !.conn[srv.held] = "handling"]
       /\ UNCHANGED <<ctlVars, ch, pctxDone, fw>>

\* gracefulShutdown: shuttingDown.Store(true), close(shutdownChan), the
\* select on done (activeConns.Wait has returned) and on ctx.Done() of the
\* context it was given, healthServer.Shutdown, return ctx.Err()
gracefulShutdown ==
    \/ /\ srv.pc = "mark"
       /\ srv' = [srv EXCEPT !.pc = "close", !.shuttingDown = TRUE]
       /\ UNCHANGED <<ctlVars, ch, pctxDone, fw>>
    \/ /\ srv.pc = "close"
       /\ srv' = [srv EXCEPT !.pc = "wait", !.closed = TRUE]
       /\ UNCHANGED <<ctlVars, ch, pctxDone, fw>>
    \/ /\ srv.pc = "wait"
       /\ \A k \in Conns : srv.conn[k] # "handling"
       /\ srv' = [srv EXCEPT !.pc = "health", !.waited = "done"]
       /\ UNCHANGED <<ctlVars, ch, pctxDone, fw>>
    \/ /\ srv.pc = "wait" /\ pctxDone
       /\ srv' = [srv EXCEPT !.pc = "health", !.waited = "ctx"]
       /\ UNCHANGED <<ctlVars, ch, pctxDone, fw>>
    \/ /\ srv.pc = "health"
       /\ srv' = [srv EXCEPT !.pc = "returned", !.ret = "ctx"]
       /\ UNCHANGED <<ctlVars, ch, pctxDone, fw>>

\* handleConnection returns (the client has gone, or the handshake has
\* failed): activeConns.Done
handleConnection(k) ==
    /\ srv.conn[k] = "handling"
    /\ srv' = [srv EXCEPT !.conn[k] = "done"]
    /\ UNCHANGED <<ctlVars, ch, pctxDone, fw>>

\* the proxy process: its listener, its connections and the signal
ServerNext ==
    \/ ProxyCancel
    \/ Acceptor
    \/ Start
    \/ gracefulShutdown
    \/ \E k \in Conns : handleConnection(k)

ServerSpec == Init /\ [][ServerNext]_vars

\* the connection whose handleConnection starts the handleChannel goroutines
ChannelConn == "k1"

\* the proxy process with the channel handlers of one of its connections:
\* handleConnection starts a handleChannel for each channel the client
\* opens while it ranges over chans, and returns without waiting for them
\* (no controller runs here, so a handler's wait ends by cancellation or by
\* its timeout)
DrainNext ==
    \/ ProxyCancel
    \/ Acceptor
    \/ Start
    \/ gracefulShutdown
    \/ \E k \in Conns : handleConnection(k)
    \/ \E c \in Channels : \E t \in ChannelTypes :
          srv.conn[ChannelConn] = "handling" /\ ChannelOpen(c, t)
    \/ \E c \in Channels : ChannelReject(c)
    \/ \E c \in Channels : \E ok \in BOOLEAN : ChannelAccept(c, ok)
    \/ \E c \in Channels : \E ok \in BOOLEAN : CreateBuildRequest(c, ok)
    \/ \E c \in Channels : WaitCancelled(c)
    \/ \E c \in Channels : WaitTimeout(c)
    \/ \E c \in Channels : \E ok \in BOOLEAN : DeferredDelete(c, ok)
    \/ \E c \in Channels : ClientClose(c)

DrainSpec == Init /\ [][DrainNext]_vars

\* the first record of a sessionId is deleted and records of the same
\* sessionId are created after that and never deleted; pods start, are
\* given an address and never fail, and a pod whose owner is gone is
\* collected
RecreateNext ==
    \/ NoRecord /\ ClientCreate(GoodRequest)
    \/ nextUID > 1 /\ ~Exists(DupName) /\ ClientCreate(DupRequest)
       /\ (Exists(GoodName) => store[GoodName].uid = 1 /\ store[GoodName].del)
    \/ Exists(GoodName) /\ store[GoodName].uid = 1 /\ ClientDelete(GoodName)
    \/ \E p \in pods : PodStart(p)
    \/ \E p \in pods : \E ip \in PodIPs : PodAssignIP(p, ip)
    \/ \E p \in pods : PodGC(p)
    \/ \E n \in {GoodName, DupName} : \E ok \in BOOLEAN : ReconcileStart("w1", n, ok)
    \/ FinalizeStep("w1")
    \/ ProvisionStep("w1")
    \/ RunStep("w1")

RecreateSpec == Init /\ [][RecreateNext]_vars

\* one record with a valid sessionId that nobody deletes, a pod that starts
\* and is given its address, and one worker whose calls may fail
ProvisionNext ==
    \/ ClientCreate(GoodRequest)
    \/ \E p \in pods : PodStart(p)
    \/ \E p \in pods : \E ip \in PodIPs : PodAssignIP(p, ip)
    \/ \E t \in Instants : Tick(t)
    \/ \E ok \in BOOLEAN : ReconcileStart("w1", GoodName, ok)
    \/ \E ok \in BOOLEAN : FinalizerAdd("w1", ok)
    \/ ProvisionStep("w1")
    \/ RunStep("w1")

\* the record is reconciled again after every return (the watch on the
\* record and on its pod, RequeueAfter, the backoff after an error), no
\* call fails for ever, and the pod is scheduled
ProvisionFair ==
    /\ WF_vars(ReconcileStart("w1", GoodName, TRUE))
    /\ SF_vars(FinalizerAdd("w1", TRUE))
    /\ SF_vars(PendingGet("w1", TRUE))
    /\ SF_vars(PendingCreate("w1", TRUE))
    /\ SF_vars(PendingWrite("w1", TRUE))
    /\ SF_vars(UpdateStatus("w1", TRUE))
    /\ SF_vars(CreatingGet("w1", TRUE))
    /\ SF_vars(CreatingWrite("w1", TRUE))
    /\ WF_vars(\E p \in pods : PodStart(p))
    /\ WF_vars(\E p \in pods : \E ip \in PodIPs : PodAssignIP(p, ip))

ProvisionSpec == Init /\ [][ProvisionNext]_vars /\ ProvisionFair

\* the steps handleChannel takes by itself once its channel has arrived:
\* calls that return and timers that fire (the 2-minute ceiling of
\* waitForBuilderPod, the 10 s dial timeout, the 5 s deleteCtx)
HandleChannelStep(c) ==
    \/ ChannelReject(c)
    \/ \E ok \in BOOLEAN : ChannelAccept(c, ok)
    \/ \E ok \in BOOLEAN : CreateBuildRequest(c, ok)
    \/ WaitCancelled(c)
    \/ WaitTimeout(c)
    \/ \E ok \in BOOLEAN : WaitPoll(c, ok)
    \/ \E ok \in BOOLEAN : DialBuilder(c, ok)
    \/ \E ok \in BOOLEAN : OpenBuilderChannel(c, ok)
    \/ \E ok \in BOOLEAN : DeferredDelete(c, ok)

\* one channel of the proxy, the reconciler and the cluster; the goroutine
\* of handleChannel is scheduled, nothing else is required to happen
WaitNext ==
    \/ \E t \in ChannelTypes : ChannelOpen("c1", t)
    \/ HandleChannelStep("c1")
    \/ \E t \in SpliceTasks : TaskExit("c1", t)
    \/ SpliceReturn("c1")
    \/ ClientClose("c1")
    \/ BuilderClose("c1")
    \/ ProxyCancel
    \/ \E p \in pods : PodStart(p)
    \/ \E p \in pods : \E ip \in PodIPs : PodAssignIP(p, ip)
    \/ \E p \in pods : PodFail(p)
    \/ \E p \in pods : PodGC(p)
    \/ \E ok \in BOOLEAN : ReconcileStart("w1", SessionRecord, ok)
    \/ FinalizeStep("w1")
    \/ ProvisionStep("w1")
    \/ RunStep("w1")

WaitSpec == Init /\ [][WaitNext]_vars /\ WF_vars(HandleChannelStep("c1"))

-----------------------------------------------------------------------------
(* Properties                                                              *)

\* C1: whatever the interleaving of the Reconciles of the two workers and
\* whichever of their writes fail, at most one pod carries a given
\* sessionId: a pod is only created under the name nix-builder-<sessionId>
\* when the store has none of that name, and the create that loses the race
\* adds none.
OneWorkerPerSession ==
    \A p \in pods : \A q \in pods : p.session = q.session => p = q

\* a create has lost the race (AlreadyExists) and the session has its one pod
LostCreateRace ==
    /\ \E w \in Workers : wk[w].res.err = "AlreadyExists"
    /\ Cardinality({p \in pods : p.session = GoodID}) = 1

\* C2: a channel for which createBuildRequest succeeded has issued the
\* Delete of its record by the time handleChannel has returned, on every
\* exit path, the ambient context cancelled or not.
DeleteOnEveryExit ==
    \A c \in Channels :
        (ch[c].pc = "done" /\ ch[c].created) =>
            /\ ch[c].deleted
            /\ ch[c].exit \in {"timeout", "cancelled", "dial", "open", "splice"}

\* handleChannel has left the wait on the cancelled ambient context and has
\* issued the Delete
DeletedAfterCancel ==
    \E c \in Channels :
        /\ ch[c].pc = "done" /\ ch[c].created
        /\ ch[c].exit = "cancelled" /\ pctxDone
        /\ ch[c].deleted

\* C3: a record in phase Running has a non-empty status.podIP.
RunningHasPodIP ==
    \A n \in RecNames :
        (Exists(n) /\ store[n].st.phase = "Running") => store[n].st.podIP # ""

\* a record has been taken to Running
SomeRunning ==
    \E n \in RecNames :
        /\ Exists(n) /\ store[n].st.phase = "Running"
        /\ store[n].st.podIP \in PodIPs

\* C4: a record in phase Completed or Failed has its completionTime set,
\* by whichever path it became terminal, and no Reconcile has dereferenced
\* a nil completionTime.
TerminalHasCompletionTime ==
    /\ \A n \in RecNames :
          (Exists(n) /\ store[n].st.phase \in {"Completed", "Failed"}) =>
              store[n].st.completionTime # NilTime
    /\ \A w \in Workers : wk[w].res.err # "panic"

\* handleCompletedBuild has read the completionTime of a record that
\* GracefulShutdown took to Failed
CompletedReadAfterShutdown ==
    \E n \in RecNames : \E w \in Workers :
        /\ Exists(n) /\ store[n].st.phase = "Failed"
        /\ store[n].st.message = <<"Controller shutdown during processing">>
        /\ wk[w].res.path = "completed" /\ wk[w].res.uid = store[n].uid

\* C5: every step leaves the phase of a record as it is or moves it along
\* an edge of the FSM: forward, to Failed from a phase that is not terminal,
\* or back from Creating to Pending; a record in Completed or Failed keeps
\* its phase.
PhaseMovesAlongFSM ==
    [][LET forward == {<<"", "Creating">>, <<"Pending", "Creating">>,
                       <<"Creating", "Running">>, <<"Running", "Completed">>}
           failing == {<<p, "Failed">> : p \in {"", "Pending", "Creating", "Running"}}
           back == {<<"Creating", "Pending">>}
       IN  \A n \in RecNames :
             (Exists(n) /\ store'[n] # NoObj /\ store'[n].uid = store[n].uid) =>
                 \/ store'[n].st.phase = store[n].st.phase
                 \/ <<store[n].st.phase, store'[n].st.phase>>
                        \in forward \cup failing \cup back]_vars

\* a record has been rolled back from Creating to Pending
RolledBack ==
    \E n \in RecNames :
        /\ Exists(n) /\ store[n].st.phase = "Pending"
        /\ store[n].st.message = <<"Builder pod was deleted, recreating">>

\* C6, as stated: every record that is not marked for deletion and for
\* which a Reconcile has returned carries the finalizer, whatever its
\* sessionId.
FinalizerOnEveryReconciled ==
    \A n \in RecNames :
        (Exists(n) /\ ~store[n].del /\ store[n].uid \in reconciled) =>
            store[n].fin

\* C6, amended: every record with a valid sessionId that is not marked for
\* deletion and for which a Reconcile has returned without error carries
\* the finalizer.
FinalizerOnValidReconciled ==
    \A n \in RecNames :
        (/\ Exists(n) /\ ~store[n].del /\ store[n].uid \in reconciled
         /\ validateSessionID(store[n].sid) = "nil") =>
            store[n].fin

\* a Reconcile of a valid record has returned and the record has the
\* finalizer
ValidReconciled ==
    \E n \in RecNames :
        /\ Exists(n) /\ ~store[n].del /\ store[n].uid \in reconciled
        /\ validateSessionID(store[n].sid) = "nil"
        /\ store[n].fin

\* C7: in the step that removes the finalizer of a record (the store then
\* purges the record) no pod nix-builder-<sessionId> of that record exists.
NoWorkerLeftBehind ==
    [][\A n \in RecNames :
          (Exists(n) /\ store[n].fin /\ store'[n] = NoObj) =>
              \A p \in pods' :
                  ~(p.name = PodNameFor(store[n].sid) /\ p.owner = store[n].uid)]_vars

\* C8, as stated: from every state of a record and of the pods, a second
\* Reconcile run right after the first, at the same or a later instant,
\* leaves the status the first run left.
ReconcileTwiceSameStatus ==
    \A n \in RecNames : \A t \in Instants :
        t >= clock =>
            LET a == Reconcile(store, pods, n, clock)
                b == Reconcile(a.store, a.pods, n, t)
            IN  StatusAfter(b, n) = StatusAfter(a, n)

\* C8, amended: the same, for the records that the first run leaves in
\* phase Running, Completed or Failed, or removes.
ReconcileTwiceSameOnceSettled ==
    \A n \in RecNames : \A t \in Instants :
        t >= clock =>
            LET a == Reconcile(store, pods, n, clock)
                b == Reconcile(a.store, a.pods, n, t)
            IN  StatusAfter(a, n).phase \in {"Running", "Completed", "Failed", "none"}
                    => StatusAfter(b, n) = StatusAfter(a, n)

\* a record in Creating whose pod is ready: the first run takes it to Running
FirstRunSettles ==
    \E n \in RecNames :
        /\ Exists(n) /\ store[n].st.phase = "Creating"
        /\ StatusAfter(Reconcile(store, pods, n, clock), n).phase = "Running"

\* C9: once the Reconcile of a record with an invalid sessionId has
\* returned, the record is Failed with a message that starts with
\* "Invalid sessionID", the Reconcile has returned neither an error nor a
\* requeue, and the record has no pod.
InvalidFailedInOneReconcile ==
    \A w \in Workers :
        LET r == wk[w].res
        IN  (/\ wk[w].pc = "idle" /\ r.path = "invalid"
             /\ Exists(r.key) /\ store[r.key].uid = r.uid) =>
                /\ store[r.key].st.phase = "Failed"
                /\ Len(store[r.key].st.message) > 0
                /\ Head(store[r.key].st.message) = "Invalid sessionID: "
                /\ r.err = "nil" /\ r.requeue = "none"
                /\ \A p \in pods : p.owner # r.uid

\* C10: a channel has dialed only after its record was created and read
\* in phase Running with a podIP, and has dialed that podIP; the splice
\* runs only on a dialed worker and before the Delete; the Delete is
\* issued only once the splice, if any, is over.
SessionEventsInOrder ==
    \A c \in Channels :
        /\ ch[c].obs # NoStatus => ch[c].created
        /\ ch[c].dialed # NoAddr =>
              /\ ch[c].obs # NoStatus
              /\ ch[c].obs.phase = "Running" /\ ch[c].obs.podIP # ""
              /\ ch[c].dialed = <<ch[c].obs.podIP, RemotePort>>
        /\ ch[c].tasks # {} => (ch[c].dialed # NoAddr /\ ~ch[c].deleted)
        /\ ch[c].deleted => (ch[c].created /\ ch[c].tasks = {} /\ ch[c].pc = "done")

\* a session has gone through all five events
SessionSpliced ==
    \E c \in Channels :
        /\ ch[c].pc = "done" /\ ch[c].exit = "splice"
        /\ ch[c].dialed # NoAddr /\ ch[c].deleted

\* C13: once GracefulShutdown has returned and none of its updates has
\* failed, every record that its List returned in phase Pending or Creating
\* (and that is still in the store) is Failed with the message "Controller
\* shutdown during processing" and has a completionTime.
ShutdownFailsInFlight ==
    (sd.pc = "exit" /\ sd.clean) =>
        \A l \in sd.listed :
            (/\ l.phase \in {"Pending", "Creating"}
             /\ Exists(l.name) /\ store[l.name].uid = l.uid) =>
                /\ store[l.name].st.phase = "Failed"
                /\ store[l.name].st.message = <<"Controller shutdown during processing">>
                /\ store[l.name].st.completionTime # NilTime

\* GracefulShutdown has returned after it listed a record in Pending and
\* another in Creating, both still in the store
ShutdownFailedTwo ==
    /\ sd.pc = "exit" /\ sd.clean
    /\ \E l \in sd.listed : \E m \in sd.listed :
          /\ l.phase = "Pending" /\ m.phase = "Creating"
          /\ Exists(l.name) /\ store[l.name].uid = l.uid
          /\ Exists(m.name) /\ store[m.name].uid = m.uid

\* C14: a step of GracefulShutdown (its List, an iteration of its loop, its
\* return) leaves every record in phase Running, Completed or Failed as it
\* is, and leaves the pods as they are.
ShutdownLeavesSettled ==
    [][(/\ ctxDone /\ sd.pc \in {"run", "loop"}
        /\ \/ sd'.pc # sd.pc
           \/ Cardinality(sd'.items) < Cardinality(sd.items)) =>
            /\ pods' = pods
            /\ \A n \in RecNames :
                  (Exists(n) /\ store[n].st.phase \in {"Running", "Completed", "Failed"})
                      => store'[n] = store[n]]_vars

\* GracefulShutdown has returned after it listed a record in Running, which
\* is still Running
ShutdownPassedRunning ==
    /\ sd.pc = "exit"
    /\ \E l \in sd.listed :
          /\ l.phase = "Running"
          /\ Exists(l.name) /\ store[l.name].uid = l.uid
          /\ store[l.name].st.phase = "Running"

\* C15: for a record in phase Running (valid sessionId, finalizer, not
\* marked for deletion) whose pod is not in the store, Reconcile leaves the
\* record Failed with the message "Build failed - pod was deleted" and the
\* completionTime of that instant, and creates no pod.
RunningWithoutPodFails ==
    \A n \in RecNames :
        (/\ Exists(n) /\ store[n].st.phase = "Running"
         /\ store[n].fin /\ ~store[n].del
         /\ validateSessionID(store[n].sid) = "nil"
         /\ \A p \in pods : p.name # store[n].st.podName) =>
            LET a == Reconcile(store, pods, n, clock)
            IN  /\ StatusAfter(a, n).phase = "Failed"
                /\ StatusAfter(a, n).message = <<"Build failed - pod was deleted">>
                /\ StatusAfter(a, n).completionTime = clock
                /\ a.pods = pods

\* a record in phase Running has lost its pod
RunningLostPod ==
    \E n \in RecNames :
        /\ Exists(n) /\ store[n].st.phase = "Running"
        /\ store[n].fin /\ ~store[n].del
        /\ \A p \in pods : p.name # store[n].st.podName

\* C17: a record with a non-empty status.podIP is in phase Running.
PodIPOnlyWhenRunning ==
    \A n \in RecNames :
        (Exists(n) /\ store[n].st.podIP # "") => store[n].st.phase = "Running"

\* C20: a channel whose type is not "session" only ever waits to be
\* handled or has been rejected with the reason UnknownChannelType: it has
\* created no record, read none, deleted none, dialed no worker and runs no
\* splice.
NonSessionOnlyRejected ==
    \A c \in Channels :
        (ch[c].pc # "none" /\ ch[c].type # "session") =>
            /\ ch[c].pc \in {"new", "done"}
            /\ ch[c].pc = "done" => ch[c].exit = UnknownChannelType
            /\ ~ch[c].created /\ ~ch[c].deleted
            /\ ch[c].obs = NoStatus /\ ch[c].dialed = NoAddr
            /\ ch[c].tasks = {} /\ ch[c].builder = "none"

\* a channel of another type has been rejected while a session channel is
\* being served
NonSessionRejected ==
    \E c, d \in Channels :
        /\ ch[c].type = "direct-tcpip" /\ ch[c].pc = "done"
        /\ ch[d].type = "session" /\ ch[d].created

\* C12: once the client has closed its side of a splice, routeToBuilder
\* can go on by itself: either all four goroutines have returned or one of
\* those still running can return without the worker closing and without
\* ambient cancellation.
ClientCloseEndsSplice ==
    \A c \in Channels :
        (ch[c].pc = "splice" /\ ch[c].client = "closed") =>
            \/ ch[c].tasks = {}
            \/ \E t \in ch[c].tasks : TaskMayExit(c, t)

\* C11: an accepted session channel is eventually spliced to a worker or
\* closed, and a wait that ended at its ceiling or on cancellation has
\* closed the client channel and issued the delete of the record.
SessionSplicedOrClosed ==
    /\ [](\A c \in Channels :
            (ch[c].pc = "done" /\ ch[c].exit \in {"timeout", "cancelled"}) =>
                ch[c].client = "closed" /\ ch[c].deleted)
    /\ \A c \in Channels :
            (ch[c].pc = "create") ~>
                \/ ch[c].pc = "splice"
                \/ ch[c].pc = "done" /\ ch[c].client = "closed"

\* a wait gave up at its ceiling while the record was Failed
WaitGaveUpOnFailed ==
    /\ ch["c1"].pc = "done" /\ ch["c1"].exit = "timeout"
    /\ ch["c1"].client = "closed" /\ ch["c1"].deleted
    /\ ~pctxDone
    /\ Exists(SessionRecord) /\ store[SessionRecord].st.phase = "Failed"

\* C19: a record with a valid sessionId that is not deleted, whose pod
\* starts and is given an address, eventually is in phase Running with
\* status.podIP equal to the address of the pod named in its status, and
\* it enters Running only from Creating.
ProvisionReachesRunning ==
    /\ Exists(GoodName) ~>
          /\ Exists(GoodName)
          /\ store[GoodName].st.phase = "Running"
          /\ store[GoodName].st.podIP # ""
          /\ \E p \in pods : /\ p.name = store[GoodName].st.podName
                             /\ p.ip = store[GoodName].st.podIP
    /\ [][(/\ Exists(GoodName) /\ store'[GoodName].uid = store[GoodName].uid
           /\ store[GoodName].st.phase # "Running"
           /\ store'[GoodName].st.phase = "Running")
              => store[GoodName].st.phase = "Creating"]_vars

\* the record is Running with the address of its pod and the worker has
\* returned from handleRunningBuild
ProvisionedRunning ==
    /\ Exists(GoodName)
    /\ store[GoodName].st.phase = "Running"
    /\ \E p \in pods : /\ p.name = store[GoodName].st.podName
                       /\ p.ip = store[GoodName].st.podIP /\ p.ip # ""
    /\ wk["w1"].pc = "idle" /\ wk["w1"].res.path = "running"

\* C16: a record created after the first record of its sessionId was
\* deleted, which nobody deletes and whose pods never fail, is not brought
\* to Failed by the loss of its pod.
RecreatedKeepsItsPod ==
    \A n \in RecNames :
        (Exists(n) /\ store[n].uid > 1) =>
            ~(/\ store[n].st.phase = "Failed"
              /\ store[n].st.message = <<"Build failed - pod was deleted">>)

\* C18: when Start has returned through gracefulShutdown no connection
\* handler is still running (the context gracefulShutdown is given is the
\* cancelled ambient context, which carries no deadline).
ShutdownWaitsForHandlers ==
    (srv.pc = "returned" /\ srv.waited # "") =>
        \A k \in Conns : srv.conn[k] # "handling"

\* C21: validateSessionID returns no error exactly for the strings of 1
\* to 240 characters made of lowercase alphanumerics and hyphens that
\* neither start nor end with a hyphen.
ValidateAcceptsLabels ==
    \A n \in RecNames :
        Exists(n) =>
            LET s == store[n].sid
            IN  (validateSessionID(s) = "nil") <=>
                    /\ Len(s) \in 1..240
                    /\ \A i \in 1..Len(s) : s[i] \in LabelChar
                    /\ s[1] \in AlNum /\ s[Len(s)] \in AlNum

\* C22: over the lifetime of one client connection at most one of its
\* channels has created the record build-<sessionId>.
OneCreatePerConnection ==
    Cardinality({c \in Channels : ch[c].created}) <= 1

\* C23: when Reconcile is about to remove the finalizer of a record marked
\* for deletion, no pod owned by that record exists: cleanup has deleted
\* it or has found it absent.
FinalizerRemovedAfterCleanup ==
    \A w \in Workers :
        wk[w].pc = "finalizer.remove" =>
            \A p \in pods : p.owner # wk[w].snap.uid

\* C24: a pod is created only by a Reconcile whose copy of the record,
\* read from the store, carries the finalizer; the Reconcile that adds the
\* finalizer creates no pod, writes no status and returns, with an
\* immediate requeue when its Update succeeded and with the error when not.
NoPodBeforeFinalizer ==
    [][/\ \A p \in pods' \ pods :
             \E w \in Workers : /\ wk[w].pc = "pending.create"
                                /\ wk[w].snap.fin
                                /\ p.owner = wk[w].snap.uid
       /\ \A w \in Workers :
             (wk[w].pc = "finalizer.add" /\ wk'[w].pc # "finalizer.add") =>
                 /\ pods' = pods
                 /\ wk'[w].pc = "idle" /\ wk'[w].res.path = "finalizer"
                 /\ \A n \in RecNames :
                       \/ store'[n] = store[n]
                       \/ Exists(n) /\ store'[n] = [store[n] EXCEPT !.fin = TRUE]
                 /\ IF wk'[w].res.err = "nil"
                    THEN /\ wk'[w].res.requeue = "now"
                         /\ ~store[wk[w].key].fin /\ store'[wk[w].key].fin
                    ELSE store' = store]_vars

\* a pod exists that is owned by a record carrying the finalizer, and a
\* worker has just failed to persist the finalizer of another record
PodAfterFinalizer ==
    /\ \E p \in pods : \E n \in RecNames :
          Exists(n) /\ store[n].uid = p.owner /\ store[n].fin
    /\ \E w \in Workers : \E n \in RecNames :
          /\ wk[w].pc = "idle" /\ wk[w].res.path = "finalizer"
          /\ wk[w].res.err # "nil" /\ wk[w].res.key = n
          /\ Exists(n) /\ ~store[n].fin

\* C25: for a record in phase Creating (valid sessionId, finalizer, not
\* marked for deletion) whose pod is not in the store, Reconcile leaves the
\* record Pending with empty podName and podIP and the startTime it had,
\* and creates no pod; the Reconcile after that creates the pod
\* nix-builder-<sessionId> and leaves the record Creating with that
\* podName and still the same startTime.
CreatingWithoutPodRollsBack ==
    \A n \in RecNames :
        (/\ Exists(n) /\ store[n].st.phase = "Creating"
         /\ store[n].fin /\ ~store[n].del
         /\ validateSessionID(store[n].sid) = "nil"
         /\ \A p \in pods : p.name # store[n].st.podName) =>
            LET a == Reconcile(store, pods, n, clock)
                b == Reconcile(a.store, a.pods, n, clock)
            IN  /\ StatusAfter(a, n).phase = "Pending"
                /\ StatusAfter(a, n).podName = <<>>
                /\ StatusAfter(a, n).podIP = ""
                /\ StatusAfter(a, n).startTime = store[n].st.startTime
                /\ a.pods = pods
                /\ StatusAfter(b, n).phase = "Creating"
                /\ StatusAfter(b, n).podName = PodNameFor(store[n].sid)
                /\ StatusAfter(b, n).startTime = store[n].st.startTime
                /\ StatusAfter(b, n).startTime # NilTime
                /\ \E p \in b.pods : /\ p.name = PodNameFor(store[n].sid)
                                     /\ p.owner = store[n].uid

\* a worker has rolled a Creating record back to Pending and returned no
\* error, and the clock has moved on since the build started
RolledBackToPending ==
    \E n \in RecNames : \E w \in Workers :
        /\ Exists(n) /\ store[n].st.phase = "Pending"
        /\ store[n].st.podName = <<>> /\ store[n].st.podIP = ""
        /\ store[n].st.startTime # NilTime /\ store[n].st.startTime < clock
        /\ wk[w].pc = "idle" /\ wk[w].res.key = n
        /\ wk[w].res.path = "creating" /\ wk[w].res.err = "nil"

\* C26: for a record in phase Creating or Running (valid sessionId,
\* finalizer, not marked for deletion) whose pod is in phase Succeeded or
\* Failed, Reconcile leaves the record in a terminal phase: Failed for a
\* Failed pod, Completed for a Succeeded one.
TerminalPodReflected ==
    \A n \in RecNames :
        (/\ Exists(n) /\ store[n].st.phase \in {"Creating", "Running"}
         /\ store[n].fin /\ ~store[n].del
         /\ validateSessionID(store[n].sid) = "nil") =>
            \A p \in pods :
                (p.name = store[n].st.podName /\ p.phase \in {"Succeeded", "Failed"}) =>
                    StatusAfter(Reconcile(store, pods, n, clock), n).phase =
                        IF p.phase = "Failed" THEN "Failed" ELSE "Completed"

\* C27: for a record in the empty or Pending phase (valid sessionId,
\* finalizer, not marked for deletion) while a pod nix-builder-<sessionId>
\* exists, Reconcile leaves the record Creating with that name as
\* status.podName and leaves the pods as they are.
ExistingPodAdopted ==
    \A n \in RecNames :
        (/\ Exists(n) /\ store[n].st.phase \in {"", "Pending"}
         /\ store[n].fin /\ ~store[n].del
         /\ validateSessionID(store[n].sid) = "nil"
         /\ \E p \in pods : p.name = PodNameFor(store[n].sid)) =>
            LET a == Reconcile(store, pods, n, clock)
            IN  /\ StatusAfter(a, n).phase = "Creating"
                /\ StatusAfter(a, n).podName = PodNameFor(store[n].sid)
                /\ a.pods = pods

\* a worker has adopted, for one record, the pod that belongs to another
\* record and has returned no error
AdoptedForeignPod ==
    \E n \in RecNames : \E w \in Workers : \E p \in pods :
        /\ Exists(n) /\ store[n].st.phase = "Creating"
        /\ store[n].st.message = <<"Builder pod exists">>
        /\ p.name = store[n].st.podName /\ p.owner # store[n].uid
        /\ wk[w].pc = "idle" /\ wk[w].res.key = n
        /\ wk[w].res.path = "pending" /\ wk[w].res.err = "nil"

\* C28: for a record in phase Completed or Failed (valid sessionId,
\* finalizer, not marked for deletion), Reconcile leaves the record as it
\* is, and it leaves the pods as they are unless completionTime is more
\* than 5 minutes old, in which case the pod named status.podName, if there
\* is one, is deleted and no other.
TerminalOnlyCollects ==
    \A n \in RecNames :
        (/\ Exists(n) /\ store[n].st.phase \in {"Completed", "Failed"}
         /\ store[n].fin /\ ~store[n].del
         /\ validateSessionID(store[n].sid) = "nil") =>
            LET a == Reconcile(store, pods, n, clock)
            IN  /\ a.store = store
                /\ a.pods = IF clock - store[n].st.completionTime > 5
                            THEN {p \in pods : p.name # store[n].st.podName}
                            ELSE pods

\* handleCompletedBuild is about to delete the pod of a record whose
\* completionTime is more than 5 minutes old
CollectingOldPod ==
    \E w \in Workers :
        /\ wk[w].pc = "completed.delete"
        /\ wk[w].snap.st.phase \in {"Completed", "Failed"}
        /\ clock - wk[w].snap.st.completionTime > 5
        /\ wk[w].pod \in pods

\* C29: a Reconcile that returns for a terminal record (not marked for
\* deletion) whose pod still exists and whose completionTime is not yet
\* more than 5 minutes old asks for a requeue.
TerminalRequeuesForGC ==
    [][\A w \in Workers :
          (/\ wk[w].pc = "idle" /\ wk'[w].pc = "idle" /\ wk'[w] # wk[w]
           /\ wk'[w].res.path = "completed" /\ wk'[w].res.err = "nil"
           /\ LET n == wk'[w].res.key
              IN  /\ Exists(n) /\ ~store[n].del
                  /\ store[n].st.phase \in {"Completed", "Failed"}
                  /\ clock - store[n].st.completionTime <= 5
                  /\ \E p \in pods : p.name = store[n].st.podName) =>
              wk'[w].res.requeue # "none"]_vars

\* C30: a step of Reconcile that changes the store changes only the
\* record Reconcile has read, which is still as it was read, and Reconcile
\* returns with that step (so it writes at most once, last); the step adds
\* the finalizer, or removes it (the record is purged), or writes the
\* status decided from the copy read, whose phase is the phase read or one
\* edge of the FSM away from it.
OneWritePerReconcile ==
    [][LET edges == {<<"", "Creating">>, <<"Pending", "Creating">>,
                     <<"Creating", "Running">>, <<"Running", "Completed">>,
                     <<"Creating", "Pending">>}
                    \cup {<<p, "Failed">> : p \in {"", "Pending", "Creating", "Running"}}
       IN  \A w \in Workers :
             (wk[w].pc # "idle" /\ wk'[w].pc # wk[w].pc /\ store' # store) =>
                 LET n == wk[w].key
                 IN  /\ wk'[w].pc = "idle"
                     /\ pods' = pods
                     /\ \A m \in RecNames \ {n} : store'[m] = store[m]
                     /\ store[n] = wk[w].snap
                     /\ \/ store'[n] = [store[n] EXCEPT !.fin = TRUE]
                        \/ store'[n] = NoObj /\ store[n].del
                        \/ /\ store'[n] = [store[n] EXCEPT !.st = wk[w].next]
                           /\ \/ wk[w].next.phase = store[n].st.phase
                              \/ <<store[n].st.phase, wk[w].next.phase>> \in edges]_vars

\* Reconcile has created a pod, then written the status, and returned
WroteAfterCreate ==
    \E w \in Workers : \E n \in RecNames :
        /\ wk[w].pc = "idle" /\ wk[w].res.key = n
        /\ wk[w].res.path = "pending" /\ wk[w].res.requeue = "5s"
        /\ Exists(n) /\ store[n].st.phase = "Creating"
        /\ \E p \in pods : p.name = store[n].st.podName /\ p.owner = store[n].uid

\* C31: when the r.Create of handlePendingBuild fails (no pod is added),
\* Reconcile returns with that step, with an error and a requeue after
\* 2 s, and the store is left as it is.
CreateFailureRetried ==
    [][\A w \in Workers :
          (/\ wk[w].pc = "pending.create" /\ wk'[w].pc # "pending.create"
           /\ pods' = pods) =>
              /\ store' = store
              /\ wk'[w].pc = "idle"
              /\ wk'[w].res.err # "nil" /\ wk'[w].res.requeue = "2s"]_vars

\* a Reconcile has returned from a failed create and its record is still
\* without phase, podName and startTime
CreateFailed ==
    \E w \in Workers : \E n \in RecNames :
        /\ wk[w].pc = "idle" /\ wk[w].res.key = n
        /\ wk[w].res.path = "pending" /\ wk[w].res.requeue = "2s"
        /\ wk[w].res.err = "AlreadyExists"
        /\ Exists(n) /\ store[n].uid = wk[w].res.uid
        /\ store[n].st = EmptyStatus

\* C32: a status write of Reconcile that is refused because the record
\* has changed since it was read (a conflict) leaves the store as it is and
\* makes Reconcile return an error, on each of the paths that write status.
StatusWriteFailureReturned ==
    [][\A w \in Workers :
          (/\ wk[w].pc \in {"invalid.write", "pending.write", "updateStatus",
                            "creating.write"}
           /\ ~wk[w].fresh
           /\ wk'[w].pc # wk[w].pc) =>
              /\ store' = store
              /\ wk'[w].pc = "idle" /\ wk'[w].res.err # "nil"]_vars

\* C33: routeToBuilder leaves its splice only when all four goroutines
\* have returned, closing the worker side in that step; the delete of the
\* record is issued after that, and a handler that has run its deferred
\* delete does nothing more.
SpliceTeardownAfterBarrier ==
    [][\A c \in Channels :
          /\ (ch[c].pc = "splice" /\ ch'[c].pc # "splice") =>
                /\ ch[c].tasks = {}
                /\ ch'[c].pc = "delete" /\ ch'[c].builder = "closed"
                /\ ~ch'[c].deleted
          /\ (ch[c].exit = "splice" /\ ~ch[c].deleted /\ ch'[c].deleted) =>
                /\ ch[c].pc = "delete" /\ ch'[c].pc = "done"
                /\ ch[c].tasks = {} /\ ch[c].builder = "closed"
          /\ ch[c].pc = "done" => ch'[c] = ch[c]]_vars

\* routeToBuilder has returned from a splice and the record delete is
\* about to be issued
SpliceTornDown ==
    \E c \in Channels :
        /\ ch[c].pc = "delete" /\ ch[c].exit = "splice"
        /\ ch[c].tasks = {} /\ ch[c].builder = "closed" /\ ~ch[c].deleted

\* C34: once one of the four goroutines of a splice has returned, each of
\* those still running can return too: the side it waits on has been
\* closed.
TaskExitReleasesOthers ==
    [][\A c \in Channels :
          (/\ ch[c].pc = "splice" /\ ch'[c].pc = "splice"
           /\ ch'[c].tasks # ch[c].tasks) =>
              \A t \in ch'[c].tasks : TaskMayExit(c, t)']_vars

\* C35: the SendRequest calls of forwardRequests are, in order, the
\* requests it has taken from src, each with its type, payload and
\* wantReply flag; the requests with wantReply whose Reply has been made
\* have one reply each, in order, which is success exactly when the
\* downstream accepted and SendRequest returned no error; the others have
\* none.
RequestsForwardedInOrder ==
    LET done == IF fw.pc = "send" THEN fw.cur - 1 ELSE fw.cur
        replied == IF fw.pc = "recv" \/ fw.pc = "returned" THEN fw.cur
                   ELSE fw.cur - 1
        wanting == {i \in 1..replied : fw.asked[i].wantReply}
    IN  /\ Len(fw.sent) = done
        /\ \A i \in 1..done :
              /\ fw.sent[i].type = fw.asked[i].type
              /\ fw.sent[i].payload = fw.asked[i].payload
              /\ fw.sent[i].wantReply = fw.asked[i].wantReply
        /\ Len(fw.replies) = Cardinality(wanting)
        /\ {fw.replies[j].req : j \in 1..Len(fw.replies)} = wanting
        /\ \A j \in 1..Len(fw.replies) :
              /\ j > 1 => fw.replies[j - 1].req < fw.replies[j].req
              /\ fw.replies[j].ok =
                     (fw.sent[fw.replies[j].req].accepted
                        /\ ~fw.sent[fw.replies[j].req].failed)

\* three requests have gone through: one answered with success, one
\* answered with failure, one that wanted no reply
ForwardedThree ==
    /\ fw.pc = "recv" /\ fw.cur = 3 /\ Len(fw.replies) = 2
    /\ fw.replies[1].ok /\ ~fw.replies[2].ok
    /\ \E i \in 1..3 : ~fw.asked[i].wantReply

\* C36: a handleChannel whose createBuildRequest failed has returned with
\* the client channel closed, having created nothing, issued no Delete for
\* the session's record, polled nothing and dialed nothing; the record of
\* another handler is not deleted by it.
FailedCreateLeavesNoTrace ==
    \A c \in Channels :
        ch[c].exit = "create" =>
            /\ ch[c].pc = "done" /\ ch[c].client = "closed"
            /\ ~ch[c].created /\ ~ch[c].deleted
            /\ ch[c].obs = NoStatus /\ ch[c].dialed = NoAddr
            /\ ch[c].tasks = {} /\ ch[c].builder = "none"

\* one handler's create failed while the record another handler created is
\* in the store and that handler is still serving its channel
CreateFailedBesideOwner ==
    \E c, d \in Channels :
        /\ ch[c].exit = "create" /\ ch[c].pc = "done"
        /\ ch[d].created /\ ch[d].pc \in {"wait", "dial", "open", "splice"}
        /\ Exists(SessionRecord)

\* C37: once GracefulShutdown has returned and none of its updates has
\* failed, every record that its List returned with an empty phase (and
\* that is still in the store) is Failed with the shutdown message and a
\* completionTime, as a record listed in Pending or Creating is.
ShutdownFailsEmptyPhase ==
    (sd.pc = "exit" /\ sd.clean) =>
        \A l \in sd.listed :
            (/\ l.phase = ""
             /\ Exists(l.name) /\ store[l.name].uid = l.uid) =>
                /\ store[l.name].st.phase = "Failed"
                /\ store[l.name].st.message = <<"Controller shutdown during processing">>
                /\ store[l.name].st.completionTime # NilTime

\* C38: when gracefulShutdown has seen activeConns.Wait return, no
\* handleChannel of those connections is between its Accept and its
\* return, and every handler that created a record has issued its Delete.
HandlersDrainedAtZero ==
    srv.waited = "done" =>
        \A c \in Channels :
            /\ ch[c].pc \in {"none", "done"}
            /\ ch[c].created => ch[c].deleted

\* C39: the status.podName of every record in the store is empty or is
\* nix-builder-<spec.sessionId>, and a record in phase Creating or Running
\* has a podName.
PodNameIsSessionPod ==
    \A n \in RecNames :
        Exists(n) =>
            /\ \/ store[n].st.podName = <<>>
               \/ store[n].st.podName = PodNameFor(store[n].sid)
            /\ store[n].st.phase \in {"Creating", "Running"} =>
                   store[n].st.podName # <<>>

\* a record in Running names the pod of its session, which is in the
\* cluster with an address
NamedRunning ==
    \E n \in RecNames :
        /\ Exists(n) /\ store[n].st.phase = "Running"
        /\ store[n].st.podName = PodNameFor(store[n].sid)
        /\ PodExists(store[n].st.podName)

\* C40: no two records in the store have the same non-empty
\* status.podName.
PodAttachedToOneRecord ==
    \A n, m \in RecNames :
        (/\ n # m /\ Exists(n) /\ Exists(m)
         /\ store[n].st.podName # <<>>) =>
            store[m].st.podName # store[n].st.podName

====
